---- MODULE Spec2Model ----
(***************************************************************************)
(* Agent instance cache (src/src/domain/services.py) and conversation      *)
(* execution (src/src/application/use_cases.py) of aiagent_factory.        *)
(*                                                                         *)
(* The program runs on one asyncio event loop: the code between two awaits *)
(* is one atomic step. Every action below is one such step of one task.    *)
(* Time is the wall clock read by datetime.utcnow(), counted in ticks; it   *)
(* never goes back and moves only by the Tick action. max_idle_minutes is  *)
(* given in the same unit.                                                 *)
(***************************************************************************)
EXTENDS Naturals, Sequences, FiniteSets

\* ---------------------------------------------------------------- bounds
MaxTime == 2
MaxCreate == 3
MaxUsage == 2
MaxHistory == 3
MaxServers == 2

\* request tasks call get_or_create_agent; the maintenance task drives
\* evict_stale_agents, clear_cache and get_cache_stats ("caller drives the cadence")
Requests == {"t1", "t2"}
Maint == "m"
Tasks == Requests \cup {Maint}
Configs == {"c1", "c2", "c3"}
Sessions == {"s1", "s2", "s3"}
IdleChoices == {1}
NoTask == "none"
NoConfig == "none"
NoSid == "none"

VARIABLES
    now,               \* datetime.utcnow()
    max_size,          \* AgentInstanceCache.max_size
    max_idle_minutes,  \* AgentInstanceCache.max_idle_minutes
    cache,             \* AgentInstanceCache._cache, front = first key of the OrderedDict
    lock,              \* AgentInstanceCache._lock: the task holding it
    waiters,           \* AgentInstanceCache._lock: tasks queued in acquire()
    task,              \* each asyncio task: position, locals, result
    factory_calls,     \* create_agent_from_config invocations per config_id
    creations,         \* of which returned an agent, per config_id
    removals,          \* entries taken out of _cache, per config_id
    ret,               \* what the step just taken returned to its caller
    conv_store,        \* ConversationRepository: session_id -> stored session
    config_store,      \* AgentConfigurationRepository: the config_ids stored
    config_updated_at, \* AgentConfigurationRepository: updated_at of each configuration
    _sessions          \* InMemorySessionRepository._sessions (legacy sessions)

vars == <<now, max_size, max_idle_minutes, cache, lock, waiters, task,
          factory_calls, creations, removals, ret, conv_store, config_store,
          config_updated_at, _sessions>>

stores == <<conv_store, config_store, config_updated_at, _sessions>>

\* ------------------------------------------------------- sequence helpers
RECURSIVE SumOver(_, _)
SumOver(f, S) == IF S = {} THEN 0
                 ELSE LET x == CHOOSE y \in S : TRUE IN f[x] + SumOver(f, S \ {x})

SelectSeqIdx(s, keep) ==
    LET F[i \in 0..Len(s)] ==
            IF i = 0 THEN <<>>
            ELSE IF i \in keep THEN Append(F[i - 1], s[i]) ELSE F[i - 1]
    IN F[Len(s)]

Keys(c) == {c[i].config_id : i \in 1..Len(c)}

\* ------------------------------------------------------------- AgentInstance
\* AgentInstance.__init__
AgentInstance(config_id, agent, t_now) ==
    [config_id |-> config_id, agent |-> agent, created_at |-> t_now,
     last_used |-> t_now, usage_count |-> 0]

mark_used_twice(inst, t_now) ==
    [inst EXCEPT !.last_used = t_now, !.usage_count = @ + 2]

mark_used_no_count(inst, t_now) == [inst EXCEPT !.last_used = t_now]

\* AgentInstance.mark_used
mark_used(inst, t_now) ==
    [inst EXCEPT !.last_used = t_now, !.usage_count = @ + 1]

is_stale_inclusive(inst, idle, t_now) == (t_now - inst.last_used) >= idle

\* AgentInstance.is_stale
is_stale(inst, idle, t_now) == (t_now - inst.last_used) > idle

\* ------------------------------------------------------ OrderedDict of _cache
InCacheNever(c, id) == FALSE

\* config_id in self._cache
InCache(c, id) == \E i \in 1..Len(c) : c[i].config_id = id

\* self._cache[config_id]
GetItem(c, id) == c[CHOOSE i \in 1..Len(c) : c[i].config_id = id]

\* del self._cache[config_id]
DelItem(c, id) == SelectSeqIdx(c, {i \in 1..Len(c) : c[i].config_id # id})

move_to_front(c, id) == <<GetItem(c, id)>> \o DelItem(c, id)

move_to_end_noop(c, id) == c

\* self._cache.move_to_end(config_id)
move_to_end(c, id) == Append(DelItem(c, id), GetItem(c, id))

\* self._cache[config_id] = instance: a new key goes last, a present key keeps its place
SetItem(c, inst) ==
    IF \E i \in 1..Len(c) : c[i].config_id = inst.config_id
    THEN [i \in 1..Len(c) |-> IF c[i].config_id = inst.config_id THEN inst ELSE c[i]]
    ELSE Append(c, inst)

popitem_last(c) == SubSeq(c, 1, Len(c) - 1)

\* self._cache.popitem(last=False)
popitem(c) == Tail(c)

OverCapacityOffByOne(c, cap) == Len(c) > cap + 1

\* len(self._cache) > self.max_size
OverCapacity(c, cap) == Len(c) > cap

\* instance.mark_used() on the object just built: it reaches the cache only when
\* that object is still the value stored under its key
MarkInstance(c, inst, t_now) ==
    [i \in 1..Len(c) |-> IF c[i] = inst THEN mark_used(c[i], t_now) ELSE c[i]]

\* ------------------------------------------------------ sessions and messages
\* message texts are sequences of text fragments
Messages == {<<"hi">>}
AnswerText == <<"answer">>
NoResponseText == <<"Agent executed but returned no response.">>
FactoryError == "agent creation failed"
EngineError == "engine failed"
StoreError == "store unavailable"
HistoryError == "1 validation error for MessageHistory"
\* a message content that is a list of content blocks and not a str
BlockContent == <<"content-blocks", "answer">>

HumanMessage(content) == [cls |-> "HumanMessage", content |-> content]
AIMessage(content) == [cls |-> "AIMessage", content |-> content]
SystemMessage(content) == [cls |-> "SystemMessage", content |-> content]

\* isinstance(content, str)
IsStr(content) == content # BlockContent

\* str(content)
ToStr(content) == IF IsStr(content) THEN content ELSE <<"['answer']">>

\* MessageHistory.content is declared `str`: building an entry from anything else
\* raises a validation error
ValidHistoryContent(content) == IsStr(content)

\* MessageHistory(role, content, timestamp)
MessageHistory(role, content, t_now) ==
    [role |-> role, content |-> content, timestamp |-> t_now]

\* ConversationSession with its defaults; NoSession stands for None
ConversationSession(sid, cfg, t_now) ==
    [session_id |-> sid, config_id |-> cfg, created_at |-> t_now, updated_at |-> t_now,
     messages |-> <<>>, message_history |-> <<>>]

NoSession == ConversationSession(NoSid, NoConfig, 0)

\* _serialize_messages: the class name and the content of each message
serialize_message(m) == [type |-> m.cls, content |-> m.content]
_serialize_messages(messages) ==
    [i \in 1..Len(messages) |-> serialize_message(messages[i])]

deserialize_message_two_roles(d) ==
    IF d.type = "AIMessage" THEN AIMessage(d.content) ELSE HumanMessage(d.content)

\* _deserialize_messages: unknown types fall back to HumanMessage
deserialize_message(d) ==
    IF d.type = "HumanMessage" THEN HumanMessage(d.content)
    ELSE IF d.type = "AIMessage" THEN AIMessage(d.content)
    ELSE IF d.type = "SystemMessage" THEN SystemMessage(d.content)
    ELSE HumanMessage(d.content)
_deserialize_messages(serialized) ==
    [i \in 1..Len(serialized) |-> deserialize_message(serialized[i])]

\* the document written by create_session / update_session
SessionDoc(session) ==
    [_id |-> session.session_id, config_id |-> session.config_id,
     created_at |-> session.created_at, updated_at |-> session.updated_at,
     langchain_messages |-> _serialize_messages(session.messages),
     message_history |-> session.message_history]

NoDoc == SessionDoc(NoSession)

\* AgentSession(session_id, mcp_servers, created_at) of the legacy repository;
\* NoAgentSession stands for a key that is not in _sessions
AgentSession(sid, t_now) == [session_id |-> sid, created_at |-> t_now]

NoAgentSession == AgentSession(NoSid, 0)

\* find_one({"_id": session_id}) found a document
SessionFound(store, sid) == store[sid]._id = sid

\* get_session: None, or the session rebuilt from the document
get_session(store, sid) ==
    IF ~SessionFound(store, sid) THEN NoSession
    ELSE LET doc == store[sid] IN
         [session_id |-> doc._id, config_id |-> doc.config_id,
          created_at |-> doc.created_at, updated_at |-> doc.updated_at,
          messages |-> _deserialize_messages(doc.langchain_messages),
          message_history |-> doc.message_history]

TouchNot(session, t_now) == session

\* session.updated_at = datetime.utcnow()
Touch(session, t_now) == [session EXCEPT !.updated_at = t_now]

\* update_session up to its await: the caller's session object gets a new
\* updated_at, and the document is built from it
update_session_call(session, t_now) == Touch(session, t_now)

\* replace_one({"_id": ...}, doc) without upsert: a missing document stays missing
replace_one_if_unchanged(store, doc) ==
    IF SessionFound(store, doc._id) /\ store[doc._id].langchain_messages = <<>>
    THEN [store EXCEPT ![doc._id] = doc] ELSE store

replace_one_upsert(store, doc) == [store EXCEPT ![doc._id] = doc]

replace_one(store, doc) ==
    IF SessionFound(store, doc._id) THEN [store EXCEPT ![doc._id] = doc] ELSE store

\* ------------------------------------------------------------------- tasks
\* pc: idle | waiting (queued in lock.acquire) | factory (awaiting
\* create_agent_from_config) | done (returned or raised; `out` says which).
\* absent, overlap, disturbed record the history of a get_or_create_agent call:
\* whether no entry for its config_id existed when it was issued, which other such
\* calls for the same config_id were in flight with it, and whether an entry for
\* its config_id left the cache while it was in flight.
\* An execute adds: get_config (awaiting the configuration), invoke (awaiting
\* agent.ainvoke), persist (awaiting update_session at line 174), persist_err
\* (awaiting update_session at line 190). session is the ConversationSession object
\* the execute works on; loaded and loaded_at record it as get_session returned
\* it; cause is the first exception caught by _sync_response; sent is the
\* "messages" value given to agent.ainvoke. A streaming request adds: s_get_config
\* and streaming (the consumer iterates over the events); events are the events
\* _stream_conversation_response has yielded.
IdleTask ==
    [pc |-> "idle", op |-> "none", cfg |-> NoConfig, agent |-> 0, out |-> "none",
     absent |-> FALSE, invoked |-> FALSE, overlap |-> {}, disturbed |-> FALSE,
     sid |-> NoSid, msg |-> <<>>, session |-> NoSession, loaded |-> NoSession,
     loaded_at |-> 0, response |-> <<>>, cause |-> "none", sent |-> <<>>,
     events |-> <<>>,
            config |-> [name |-> <<>>, mcp_servers |-> <<>>]]

NoRet == [task |-> NoTask, op |-> "none", cfg |-> NoConfig, agent |-> 0,
          out |-> "none", stats |-> <<>>, sid |-> NoSid, response |-> <<>>,
          message_count |-> 0, session |-> NoSession, loaded |-> NoSession,
          msg |-> <<>>, cause |-> "none", error |-> "none", events |-> <<>>,
          config |-> [name |-> <<>>, mcp_servers |-> <<>>]]

\* task t's call `rec` returned `agent` (0: nothing) or raised; inside an execute
\* the result goes to _sync_response, not to the caller of the operation
Returned(t, rec, agent, out) ==
    IF rec.op = "exec" THEN NoRet
    ELSE [NoRet EXCEPT !.task = t, !.op = rec.op, !.cfg = rec.cfg,
                       !.agent = agent, !.out = out]

InFlight(r) == r.pc \in {"waiting", "factory"}

Callable(t) == task[t].pc \in {"idle", "done"}

\* the calls of get_or_create_agent for `id` that are in flight and were issued
\* while no entry for `id` existed
Racing(id) == {u \in Tasks : InFlight(task[u]) /\ task[u].op = "goc"
                               /\ task[u].cfg = id /\ task[u].absent}

\* a finished call is kept, with its result, only as long as a call it raced with
\* can still be compared with it
Settle(rec) == IF rec.overlap = {} THEN IdleTask ELSE rec

\* task t issues a call with record `rec`: the calls it races with record it, and
\* the finished calls that raced with t's previous call forget it
Issue(t, rec) ==
    [u \in Tasks |->
        IF u = t THEN rec
        ELSE IF u \in rec.overlap THEN [task[u] EXCEPT !.overlap = @ \cup {t}]
        ELSE IF t \in task[u].overlap /\ ~InFlight(task[u])
             THEN Settle([task[u] EXCEPT !.overlap = @ \ {t}])
        ELSE task[u]]

\* an entry of each config_id in `ids` left the cache: the calls for it in flight
\* before this step (and the call of t, which acts) are marked
Disturb(tk, ids, t) ==
    [u \in Tasks |->
        IF (InFlight(task[u]) \/ u = t) /\ tk[u].op = "goc" /\ tk[u].cfg \in ids
                /\ (InFlight(tk[u]) \/ tk[u].overlap # {})
        THEN [tk[u] EXCEPT !.disturbed = TRUE] ELSE tk[u]]

Removed(r, ids) == [c \in Configs |-> IF c \in ids THEN r[c] + 1 ELSE r[c]]

ApologyWithoutCause(desc) == <<"I apologize, but I encountered an error: ", "">>

\* f"I apologize, but I encountered an error: {str(e)}"
Apology(desc) == <<"I apologize, but I encountered an error: ", desc>>

AppendTurnReplacing(session, m, role, t_now) ==
    [session EXCEPT !.messages = <<m>>,
                    !.message_history = <<MessageHistory(role, m.content, t_now)>>]

\* session.messages.append(m); session.message_history.append(MessageHistory(...))
AppendTurn(session, m, role, t_now) ==
    [session EXCEPT !.messages = Append(@, m),
                    !.message_history = Append(@, MessageHistory(role, m.content, t_now))]

\* _sync_response lines 178-190: the except handler up to the await inside
\* update_session
HandleError(rec, desc, cause) ==
    [rec EXCEPT !.pc = "persist_err",
                !.response = Apology(desc),
                !.session = update_session_call(
                    Touch(AppendTurn(@, AIMessage(Apology(desc)), "assistant", now), now), now),
                !.cause = IF @ = "none" THEN cause ELSE @]

InvokeInputLastOnly(session) == <<session.messages[Len(session.messages)]>>

\* {"messages": session.messages}
InvokeInput(session) == session.messages

\* the caller of get_or_create_agent gets `agent`: _sync_response goes on to
\* agent.ainvoke (line 152), any other caller is done
AfterAgent(rec, agent) ==
    IF rec.op = "exec"
    THEN [rec EXCEPT !.pc = "invoke", !.agent = agent, !.sent = InvokeInput(rec.session)]
    ELSE Settle([rec EXCEPT !.pc = "done", !.out = "ok", !.agent = agent])

AfterCreateRaisedUncaught(rec) ==
    Settle([rec EXCEPT !.pc = "done", !.out = "raised", !.agent = 0])

\* create_agent_from_config raised and nothing in get_or_create_agent catches it:
\* _sync_response catches it at line 178, any other caller sees it
AfterCreateRaised(rec) ==
    IF rec.op = "exec" THEN HandleError([rec EXCEPT !.agent = 0], FactoryError, "create")
    ELSE Settle([rec EXCEPT !.pc = "done", !.out = "raised", !.agent = 0])

\* an execute reads the clock for updated_at after it has awaited the stores and
\* the engine: the reading is later than the one taken when the session was loaded
ClockMoved(rec) == rec.op = "exec" => now > rec.loaded_at

\* a maintenance call returns nothing
AfterMaint(rec) == IdleTask

\* ------------------------------------------------- get_or_create_agent
HoldNothing(t) == NoTask

\* `async with self._lock` spans `await agent_factory.create_agent_from_config`
HoldDuringCreate(t) == t

\* lines 132-149: the lookup, the hit, the removal of a stale entry, the factory call
get_or_create_agent_locked(t, tk, w) ==
    LET id == tk[t].cfg IN
    IF InCache(cache, id) /\ ~is_stale(GetItem(cache, id), max_idle_minutes, now)
    THEN /\ GetItem(cache, id).usage_count < MaxUsage
         /\ cache' = LET moved == move_to_end(cache, id) IN
                [i \in 1..Len(moved) |->
                    IF moved[i].config_id = id THEN mark_used(moved[i], now)
                    ELSE moved[i]]
         /\ lock' = NoTask
         /\ waiters' = w
         /\ task' = [tk EXCEPT ![t] = AfterAgent(@, GetItem(cache, id).agent)]
         /\ ret' = Returned(t, tk[t], GetItem(cache, id).agent, "ok")
         /\ UNCHANGED <<factory_calls, creations, removals>>
    ELSE LET gone == IF InCache(cache, id) THEN {id} ELSE {} IN
         /\ SumOver(factory_calls, Configs) < MaxCreate
         /\ cache' = IF InCache(cache, id) THEN DelItem(cache, id) ELSE cache
         /\ removals' = Removed(removals, gone)
         /\ factory_calls' = [factory_calls EXCEPT ![id] = @ + 1]
         /\ lock' = HoldDuringCreate(t)
         /\ waiters' = w
         /\ task' = Disturb([tk EXCEPT ![t] =
                        [@ EXCEPT !.pc = "factory", !.invoked = TRUE,
                                  !.agent = SumOver(factory_calls, Configs) + 1]],
                            gone, t)
         /\ ret' = NoRet
         /\ UNCHANGED creations

\* lines 150-160: the factory returned; insert, evict, mark used, return
FactoryReturn(t) ==
    /\ task[t].pc = "factory"
    /\ LET rec == task[t]
           instance == AgentInstance(rec.cfg, rec.agent, now)
           put == SetItem(cache, instance)
           kept == IF OverCapacity(put, max_size) THEN popitem(put) ELSE put
           gone == Keys(put) \ Keys(kept)
       IN /\ cache' = MarkInstance(kept, instance, now)
          /\ removals' = Removed(removals, gone)
          /\ creations' = [creations EXCEPT ![rec.cfg] = @ + 1]
          /\ lock' = IF lock = t THEN NoTask ELSE lock
          /\ task' = [Disturb(task, gone, t) EXCEPT ![t] = AfterAgent(@, rec.agent)]
          /\ ret' = Returned(t, rec, rec.agent, "ok")
    /\ UNCHANGED <<now, max_size, max_idle_minutes, waiters, factory_calls, stores>>

FactoryRaiseLeavingEntry(t) ==
    /\ task[t].pc = "factory"
    /\ ClockMoved(task[t])
    /\ cache' = SetItem(cache, AgentInstance(task[t].cfg, 0, now))
    /\ lock' = IF lock = t THEN NoTask ELSE lock
    /\ task' = [task EXCEPT ![t] = AfterCreateRaised(@)]
    /\ ret' = Returned(t, task[t], 0, "raised")
    /\ UNCHANGED <<now, max_size, max_idle_minutes, waiters,
                   factory_calls, creations, removals, stores>>

FactoryRaiseKeepingLock(t) ==
    /\ task[t].pc = "factory"
    /\ ClockMoved(task[t])
    /\ lock' = lock
    /\ task' = [task EXCEPT ![t] = AfterCreateRaised(@)]
    /\ ret' = Returned(t, task[t], 0, "raised")
    /\ UNCHANGED <<now, max_size, max_idle_minutes, cache, waiters,
                   factory_calls, creations, removals, stores>>

\* line 149 raises: the exception leaves `async with`, which releases the lock
FactoryRaise(t) ==
    /\ task[t].pc = "factory"
    /\ ClockMoved(task[t])
    /\ lock' = IF lock = t THEN NoTask ELSE lock
    /\ task' = [task EXCEPT ![t] = AfterCreateRaised(@)]
    /\ ret' = Returned(t, task[t], 0, "raised")
    /\ UNCHANGED <<now, max_size, max_idle_minutes, cache, waiters,
                   factory_calls, creations, removals, stores>>

\* ------------------------------------------------- evict_stale_agents, clear_cache
StaleKeysAll(c, idle, t_now) == Keys(c)

\* lines 165-168: the keys of the entries that are stale
StaleKeys(c, idle, t_now) ==
    {c[i].config_id : i \in {j \in 1..Len(c) : is_stale(c[j], idle, t_now)}}

\* lines 165-171
evict_stale_agents_locked(t, tk, w) ==
    LET stale_keys == StaleKeys(cache, max_idle_minutes, now)
    IN /\ cache' = SelectSeqIdx(cache,
                        {i \in 1..Len(cache) : cache[i].config_id \notin stale_keys})
       /\ removals' = Removed(removals, stale_keys)
       /\ lock' = NoTask
       /\ waiters' = w
       /\ task' = Disturb([tk EXCEPT ![t] = AfterMaint(@)], stale_keys, t)
       /\ ret' = Returned(t, tk[t], 0, "ok")
       /\ UNCHANGED <<factory_calls, creations>>

clear_keeping_last(c) == IF c = <<>> THEN c ELSE <<c[Len(c)]>>

\* self._cache.clear()
clear(c) == <<>>

\* line 176
clear_cache_locked(t, tk, w) ==
    /\ cache' = clear(cache)
    /\ removals' = Removed(removals, Keys(cache))
    /\ lock' = NoTask
    /\ waiters' = w
    /\ task' = Disturb([tk EXCEPT ![t] = AfterMaint(@)], Keys(cache), t)
    /\ ret' = Returned(t, tk[t], 0, "ok")
    /\ UNCHANGED <<factory_calls, creations>>

\* the body of `async with self._lock` up to its first await or its end
Critical(t, tk, w) ==
    CASE tk[t].op \in {"goc", "exec"} -> get_or_create_agent_locked(t, tk, w)
      [] tk[t].op = "evict" -> evict_stale_agents_locked(t, tk, w)
      [] tk[t].op = "clear" -> clear_cache_locked(t, tk, w)

\* asyncio.Lock.acquire: taken at once when free with nobody queued, else queue up
Enter(t, tk) ==
    IF lock = NoTask /\ waiters = <<>>
    THEN Critical(t, tk, waiters)
    ELSE /\ waiters' = Append(waiters, t)
         /\ task' = [tk EXCEPT ![t] = [@ EXCEPT !.pc = "waiting"]]
         /\ ret' = NoRet
         /\ UNCHANGED <<cache, lock, factory_calls, creations, removals>>

\* asyncio.Lock.release woke the first waiter, which now holds the lock
Wake(t) ==
    /\ task[t].pc = "waiting"
    /\ lock = NoTask
    /\ waiters # <<>>
    /\ Head(waiters) = t
    /\ Critical(t, task, Tail(waiters))
    /\ UNCHANGED <<now, max_size, max_idle_minutes, stores>>

get_or_create_agent(t, id) ==
    /\ Callable(t)
    /\ Enter(t, Issue(t, [IdleTask EXCEPT !.op = "goc", !.cfg = id,
                    !.absent = ~InCache(cache, id),
                    !.overlap = IF InCache(cache, id) THEN {} ELSE Racing(id) \ {t}]))
    /\ UNCHANGED <<now, max_size, max_idle_minutes, stores>>

evict_stale_agents(t) ==
    /\ Callable(t)
    /\ Enter(t, Issue(t, [IdleTask EXCEPT !.op = "evict"]))
    /\ UNCHANGED <<now, max_size, max_idle_minutes, stores>>

clear_cache(t) ==
    /\ Callable(t)
    /\ Enter(t, Issue(t, [IdleTask EXCEPT !.op = "clear"]))
    /\ UNCHANGED <<now, max_size, max_idle_minutes, stores>>

get_cache_stats_touching(t) ==
    /\ Callable(t)
    /\ task' = Issue(t, IdleTask)
    /\ cache' = [i \in 1..Len(cache) |-> [cache[i] EXCEPT !.last_used = now]]
    /\ ret' = [NoRet EXCEPT !.task = t, !.op = "stats", !.out = "ok",
                !.stats = [size |-> Len(cache), max_size |-> max_size,
                           agents |-> [i \in 1..Len(cache) |->
                    [config_id |-> cache[i].config_id, created_at |-> cache[i].created_at,
                     last_used |-> now, usage_count |-> cache[i].usage_count]]]]
    /\ UNCHANGED <<now, max_size, max_idle_minutes, lock, waiters,
                   factory_calls, creations, removals, stores>>

\* get_cache_stats: no lock, no await
get_cache_stats(t) ==
    /\ Callable(t)
    /\ task' = Issue(t, IdleTask)
    /\ ret' = [NoRet EXCEPT !.task = t, !.op = "stats", !.out = "ok",
                !.stats = [size |-> Len(cache), max_size |-> max_size,
                           agents |-> [i \in 1..Len(cache) |->
                    [config_id |-> cache[i].config_id, created_at |-> cache[i].created_at,
                     last_used |-> cache[i].last_used, usage_count |-> cache[i].usage_count]]]]
    /\ UNCHANGED <<now, max_size, max_idle_minutes, cache, lock, waiters,
                   factory_calls, creations, removals, stores>>

\* ------------------------------------------- ExecuteConversationUseCase
\* agent.ainvoke(...) results: the input followed by the answer, or no messages
EngineResults(messages) ==
    {[messages |-> Append(messages, AIMessage(AnswerText))], [messages |-> <<>>]}

\* agent.ainvoke(...) results whose last message is an AIMessage with a list of
\* content blocks as content
EngineBlockResults(messages) ==
    {[messages |-> Append(messages, AIMessage(BlockContent))]}

\* _sync_response lines 155-162
ExtractResponse(result) ==
    IF result.messages # <<>>
    THEN LET last_message == result.messages[Len(result.messages)] IN
         IF last_message.cls = "AIMessage" THEN last_message.content
         ELSE ToStr(last_message.content)
    ELSE NoResponseText

get_config_any(store, id) == id

\* config_repository.get_config: None, or the configuration found by find_one
get_config(store, id) == IF id \in store THEN id ELSE NoConfig

ConfigMissingNever(config) == FALSE

\* `if not config`
ConfigMissing(config) == config = NoConfig

SessionMissingNever(session) == FALSE

\* `if not session`
SessionMissing(session) == session = NoSession

\* execute lines 113-115: get_session answered; an unknown session_id raises
\* ValueError("Session ... not found")
execute(t, sid, msg) ==
    /\ Callable(t)
    /\ now < MaxTime
    /\ Len(conv_store[sid].langchain_messages) < MaxHistory
    /\ LET session == get_session(conv_store, sid) IN
       IF SessionMissing(session)
       THEN /\ task' = Issue(t, IdleTask)
            /\ ret' = [NoRet EXCEPT !.task = t, !.op = "exec", !.sid = sid,
                                    !.out = "not_found"]
       ELSE /\ task' = Issue(t, [IdleTask EXCEPT !.pc = "get_config", !.op = "exec",
                            !.sid = sid, !.msg = msg, !.cfg = session.config_id,
                            !.session = session, !.loaded = session, !.loaded_at = now])
            /\ ret' = NoRet
    /\ UNCHANGED <<now, max_size, max_idle_minutes, cache, lock, waiters,
                   factory_calls, creations, removals, stores>>

\* execute lines 118-135 and _sync_response up to the lock of get_or_create_agent:
\* get_config answered; a missing configuration raises, else the human turn is
\* appended and the engine is asked for
ExecGetConfig(t) ==
    /\ task[t].pc = "get_config"
    /\ IF ConfigMissing(get_config(config_store, task[t].cfg))
       THEN /\ task' = [task EXCEPT ![t] = IdleTask]
            /\ ret' = [NoRet EXCEPT !.task = t, !.op = "exec", !.sid = task[t].sid,
                                    !.out = "config_not_found"]
            /\ UNCHANGED <<cache, lock, waiters, factory_calls, creations, removals>>
       ELSE Enter(t, [task EXCEPT ![t] =
                [@ EXCEPT !.session = AppendTurn(@, HumanMessage(task[t].msg), "human", now)]])
    /\ UNCHANGED <<now, max_size, max_idle_minutes, stores>>

\* _sync_response lines 152-174: ainvoke returned; extract, append, ask the store
InvokeReturn(t) ==
    /\ task[t].pc = "invoke"
    /\ ClockMoved(task[t])
    /\ \E result \in EngineResults(task[t].sent) :
         LET response == ExtractResponse(result) IN
         task' = [task EXCEPT ![t] =
            [@ EXCEPT !.pc = "persist", !.response = response,
                      !.session = update_session_call(
                        Touch(AppendTurn(@, AIMessage(response), "assistant", now), now), now)]]
    /\ ret' = NoRet
    /\ UNCHANGED <<now, max_size, max_idle_minutes, cache, lock, waiters,
                   factory_calls, creations, removals, stores>>

\* _sync_response lines 152-170 and 178-190: ainvoke returned an answer whose
\* content is not a str; line 165 appends it to session.messages, building the
\* MessageHistory entry at line 166 raises, and the handler at line 178 takes over
InvokeReturnBlocks(t) ==
    /\ task[t].pc = "invoke"
    /\ ClockMoved(task[t])
    /\ \E result \in EngineBlockResults(task[t].sent) :
         LET response == ExtractResponse(result)
             appended == [task[t] EXCEPT !.session.messages = Append(@, AIMessage(response))]
         IN /\ ~ValidHistoryContent(response)
            /\ task' = [task EXCEPT ![t] = HandleError(appended, HistoryError, "history")]
    /\ ret' = NoRet
    /\ UNCHANGED <<now, max_size, max_idle_minutes, cache, lock, waiters,
                   factory_calls, creations, removals, stores>>

\* line 152 raises: caught at line 178
InvokeRaise(t) ==
    /\ task[t].pc = "invoke"
    /\ ClockMoved(task[t])
    /\ task' = [task EXCEPT ![t] = HandleError(@, EngineError, "engine")]
    /\ ret' = NoRet
    /\ UNCHANGED <<now, max_size, max_idle_minutes, cache, lock, waiters,
                   factory_calls, creations, removals, stores>>

\* replace_one took effect and update_session returned (its boolean is ignored):
\* _sync_response returns the response and execute returns
\* ExecuteConversationResponse and the session (lines 176 / 192 and 136-140)
ExecReturn(t, pc) ==
    /\ task[t].pc = pc
    /\ LET rec == task[t] IN
       /\ conv_store' = replace_one(conv_store, SessionDoc(rec.session))
       /\ ret' = [NoRet EXCEPT !.task = t, !.op = "exec", !.sid = rec.sid, !.out = "ok",
                    !.cfg = rec.cfg, !.agent = rec.agent, !.response = rec.response,
                    !.message_count = Len(rec.session.messages),
                    !.session = rec.session, !.loaded = rec.loaded,
                    !.msg = rec.msg, !.cause = rec.cause]
       /\ task' = [task EXCEPT ![t] = IdleTask]
    /\ UNCHANGED <<now, max_size, max_idle_minutes, cache, lock, waiters,
                   factory_calls, creations, removals, config_store,
                   config_updated_at, _sessions>>

PersistOk(t) == ExecReturn(t, "persist")

PersistErrOk(t) == ExecReturn(t, "persist_err")

\* line 174 raises: caught at line 178, the handler runs after the answer was appended
PersistFail(t) ==
    /\ task[t].pc = "persist"
    /\ task' = [task EXCEPT ![t] = HandleError(@, StoreError, "store")]
    /\ ret' = NoRet
    /\ UNCHANGED <<now, max_size, max_idle_minutes, cache, lock, waiters,
                   factory_calls, creations, removals, stores>>

\* line 190 raises: it leaves _sync_response and execute wraps it at line 142 as
\* ValueError("Failed to execute conversation: ...")
PersistErrFail(t) ==
    /\ task[t].pc = "persist_err"
    /\ ret' = [NoRet EXCEPT !.task = t, !.op = "exec", !.sid = task[t].sid,
                 !.out = "failed", !.cfg = task[t].cfg,
                 !.session = task[t].session, !.loaded = task[t].loaded,
                 !.msg = task[t].msg, !.cause = task[t].cause, !.error = StoreError]
    /\ task' = [task EXCEPT ![t] = IdleTask]
    /\ UNCHANGED <<now, max_size, max_idle_minutes, cache, lock, waiters,
                   factory_calls, creations, removals, stores>>

\* ------------------------------------------- streaming execute
\* _stream_response: the fragments the generator yields, in order
Fragments(cfg) ==
    <<<<"Processing message with configuration '", cfg, "'...">>,
      <<"This is a ">>, <<"streamed ">>, <<"response">>>>

\* the events of _stream_conversation_response
MessageEvent(sid, chunk) ==
    [type |-> "message", session_id |-> sid, data |-> chunk, error |-> <<>>]
CompletionEventAsMessage(sid) ==
    [type |-> "message", session_id |-> sid, data |-> <<>>, error |-> <<>>]
CompletionEvent(sid) ==
    [type |-> "complete", session_id |-> sid, data |-> <<>>, error |-> <<>>]
ErrorEvent(sid, text) ==
    [type |-> "error", session_id |-> sid, data |-> <<>>, error |-> text]

\* the generator of _stream_conversation_response ended: nothing more is yielded
StreamEnded(t, rec, out) ==
    [NoRet EXCEPT !.task = t, !.op = "stream", !.sid = rec.sid, !.cfg = rec.cfg,
                  !.out = out, !.msg = rec.msg, !.session = rec.session,
                  !.loaded = rec.loaded, !.events = rec.events]

\* web_api lines 175-177 and execute lines 113-115: the consumer asked for the
\* first event and get_session answered; an unknown session_id raises ValueError,
\* which line 193 turns into the error event
stream_execute(t, sid, msg) ==
    /\ Callable(t)
    /\ now < MaxTime
    /\ Len(conv_store[sid].langchain_messages) < MaxHistory
    /\ LET session == get_session(conv_store, sid) IN
       IF SessionMissing(session)
       THEN /\ task' = Issue(t, IdleTask)
            /\ ret' = StreamEnded(t, [IdleTask EXCEPT !.sid = sid, !.msg = msg,
                        !.events = <<ErrorEvent(sid, <<"Session ", sid, " not found">>)>>],
                        "error")
       ELSE /\ task' = Issue(t, [IdleTask EXCEPT !.pc = "s_get_config", !.op = "stream",
                            !.sid = sid, !.msg = msg, !.cfg = session.config_id,
                            !.session = session, !.loaded = session, !.loaded_at = now])
            /\ ret' = NoRet
    /\ UNCHANGED <<now, max_size, max_idle_minutes, cache, lock, waiters,
                   factory_calls, creations, removals, stores>>

\* execute lines 118-133: get_config answered; a missing configuration raises
\* ValueError (error event), else the human turn is appended to the session object
\* and the generator of _stream_response is returned; its first fragment goes out
\* as a message event
StreamGetConfig(t) ==
    /\ task[t].pc = "s_get_config"
    /\ LET rec == task[t] IN
       IF ConfigMissing(get_config(config_store, rec.cfg))
       THEN /\ task' = [task EXCEPT ![t] = IdleTask]
            /\ ret' = StreamEnded(t, [rec EXCEPT !.events =
                        <<ErrorEvent(rec.sid, <<"Configuration ", rec.cfg, " not found">>)>>],
                        "error")
       ELSE /\ task' = [task EXCEPT ![t] =
                    [@ EXCEPT !.pc = "streaming",
                              !.session = AppendTurn(@, HumanMessage(rec.msg), "human", now),
                              !.events = <<MessageEvent(rec.sid, Fragments(rec.cfg)[1])>>]]
            /\ ret' = NoRet
    /\ UNCHANGED <<now, max_size, max_idle_minutes, cache, lock, waiters,
                   factory_calls, creations, removals, stores>>

\* get_config raised something else than ValueError: web_api line 200
StreamGetConfigFail(t) ==
    /\ task[t].pc = "s_get_config"
    /\ task' = [task EXCEPT ![t] = IdleTask]
    /\ ret' = StreamEnded(t, [task[t] EXCEPT !.events =
                    <<ErrorEvent(task[t].sid, <<"Internal error: ", StoreError>>)>>], "error")
    /\ UNCHANGED <<now, max_size, max_idle_minutes, cache, lock, waiters,
                   factory_calls, creations, removals, stores>>

\* web_api lines 179-192: the consumer asks for the next event: the next fragment
\* as a message event, or, the fragments exhausted, the completion event, after
\* which the generator ends
StreamNext(t) ==
    /\ task[t].pc = "streaming"
    /\ LET rec == task[t]
           n == Len(rec.events)
       IN IF n < Len(Fragments(rec.cfg))
          THEN /\ task' = [task EXCEPT ![t] = [@ EXCEPT !.events =
                        Append(@, MessageEvent(rec.sid, Fragments(rec.cfg)[n + 1]))]]
               /\ ret' = NoRet
          ELSE /\ task' = [task EXCEPT ![t] = IdleTask]
               /\ ret' = StreamEnded(t, [rec EXCEPT !.events =
                            Append(@, CompletionEvent(rec.sid))], "complete")
    /\ UNCHANGED <<now, max_size, max_idle_minutes, cache, lock, waiters,
                   factory_calls, creations, removals, stores>>

\* the consumer goes away before the completion event: the generator is closed at
\* its yield and nothing after it runs
StreamCancel(t) ==
    /\ task[t].pc = "streaming"
    /\ task' = [task EXCEPT ![t] = IdleTask]
    /\ ret' = StreamEnded(t, task[t], "cancelled")
    /\ UNCHANGED <<now, max_size, max_idle_minutes, cache, lock, waiters,
                   factory_calls, creations, removals, stores>>

delete_one_nothing(store, sid) == store

\* delete_one({"_id": session_id})
delete_one(store, sid) == [store EXCEPT ![sid] = NoDoc]

\* DeleteConversationUseCase.execute: delete_session answers whether a document
\* was deleted; if none was, the use case returns None (404 at the route)
delete_session(sid) ==
    /\ conv_store' = delete_one(conv_store, sid)
    /\ ret' = [NoRet EXCEPT !.op = "delete", !.sid = sid,
                 !.out = IF SessionFound(conv_store, sid) THEN "ok" ELSE "not_found"]
    /\ UNCHANGED <<now, max_size, max_idle_minutes, cache, lock, waiters, task,
                   factory_calls, creations, removals, config_store,
                   config_updated_at, _sessions>>

\* GetConversationDetailsUseCase.execute: get_session answered; None (404 at the
\* route) for an unknown session_id, else the details of the session
get_conversation_details(sid) ==
    /\ LET session == get_session(conv_store, sid) IN
       ret' = IF SessionMissing(session)
              THEN [NoRet EXCEPT !.op = "details", !.sid = sid, !.out = "not_found"]
              ELSE [NoRet EXCEPT !.op = "details", !.sid = session.session_id,
                                 !.out = "ok", !.session = session]
    /\ UNCHANGED <<now, max_size, max_idle_minutes, cache, lock, waiters, task,
                   factory_calls, creations, removals, stores>>

\* MongoAgentConfigurationRepository.update_config: updated_at is set and the
\* document replaced, without upsert
update_config(id) ==
    /\ config_updated_at' = IF id \in config_store
                            THEN [config_updated_at EXCEPT ![id] = now]
                            ELSE config_updated_at
    /\ ret' = [NoRet EXCEPT !.op = "update_config", !.cfg = id,
                 !.out = IF id \in config_store THEN "ok" ELSE "not_found"]
    /\ UNCHANGED <<now, max_size, max_idle_minutes, cache, lock, waiters, task,
                   factory_calls, creations, removals, conv_store, config_store,
                   _sessions>>

delete_config_invalidating(id) ==
    /\ id \in config_store
    /\ config_store' = config_store \ {id}
    /\ cache' = DelItem(cache, id)
    /\ ret' = [NoRet EXCEPT !.op = "delete_config", !.cfg = id, !.out = "ok"]
    /\ UNCHANGED <<now, max_size, max_idle_minutes, lock, waiters, task,
                   factory_calls, creations, removals, conv_store, config_updated_at,
                   _sessions>>

\* MongoAgentConfigurationRepository.delete_config: delete_one({"_id": config_id})
delete_config(id) ==
    /\ id \in config_store
    /\ config_store' = config_store \ {id}
    /\ ret' = [NoRet EXCEPT !.op = "delete_config", !.cfg = id, !.out = "ok"]
    /\ UNCHANGED <<now, max_size, max_idle_minutes, cache, lock, waiters, task,
                   factory_calls, creations, removals, conv_store, config_updated_at,
                   _sessions>>

\* ------------------------------------------- StartConversationUseCase
\* uuid.uuid4(): an id that no stored session and no session being started has
FreshSessionIds ==
    {s \in Sessions : /\ ~SessionFound(conv_store, s)
                      /\ \A u \in Tasks : task[u].session.session_id # s}

\* ConversationService.create_conversation: the ids a new session may get
create_conversation_ids(session_id) ==
    IF session_id = NoSid THEN FreshSessionIds ELSE {session_id}

DuplicateKeyNever(store, id) == FALSE

\* insert_one on a collection that already holds a document with this _id raises
\* DuplicateKeyError
DuplicateKey(store, id) == store[id]._id = id

\* insert_one(session_dict)
insert_one(store, doc) == [store EXCEPT ![doc._id] = doc]

\* StartConversationUseCase.execute lines 77-89: get_config answered; an unknown
\* config_id raises ValueError("Configuration ... not found"), else the session is
\* built and create_session awaits insert_one
start_conversation(t, config_id, session_id) ==
    /\ Callable(t)
    /\ IF ConfigMissing(get_config(config_store, config_id))
       THEN /\ task' = Issue(t, IdleTask)
            /\ ret' = [NoRet EXCEPT !.task = t, !.op = "start", !.cfg = config_id,
                                    !.sid = session_id, !.out = "not_found"]
       ELSE \E sid \in create_conversation_ids(session_id) :
            /\ task' = Issue(t, [IdleTask EXCEPT !.pc = "insert", !.op = "start",
                                    !.cfg = config_id, !.sid = sid,
                                    !.session = ConversationSession(sid, config_id, now)])
            /\ ret' = NoRet
    /\ UNCHANGED <<now, max_size, max_idle_minutes, cache, lock, waiters,
                   factory_calls, creations, removals, stores>>

\* create_session lines 93-104 and execute lines 91-97: insert_one answered
StartInsert(t) ==
    /\ task[t].pc = "insert"
    /\ LET rec == task[t] IN
       IF DuplicateKey(conv_store, rec.sid)
       THEN /\ conv_store' = conv_store
            /\ ret' = [NoRet EXCEPT !.task = t, !.op = "start", !.cfg = rec.cfg,
                                    !.sid = rec.sid, !.out = "duplicate",
                                    !.session = rec.session]
       ELSE /\ conv_store' = insert_one(conv_store, SessionDoc(rec.session))
            /\ ret' = [NoRet EXCEPT !.task = t, !.op = "start", !.cfg = rec.cfg,
                                    !.sid = rec.sid, !.out = "ok", !.session = rec.session]
    /\ task' = [task EXCEPT ![t] = IdleTask]
    /\ UNCHANGED <<now, max_size, max_idle_minutes, cache, lock, waiters,
                   factory_calls, creations, removals, config_store,
                   config_updated_at, _sessions>>

\* ------------------------------------------- SessionDomainService (legacy)
\* InMemorySessionRepository.session_exists
session_exists(sessions, sid) == sessions[sid].session_id = sid

\* SessionDomainService.create_new_session with an explicit session_id: no await
create_new_session(t, session_id) ==
    /\ Callable(t)
    /\ IF session_exists(_sessions, session_id)
       THEN /\ _sessions' = _sessions
            /\ ret' = [NoRet EXCEPT !.task = t, !.op = "create_new_session",
                                    !.sid = session_id, !.out = "exists"]
       ELSE /\ _sessions' = [_sessions EXCEPT ![session_id] = AgentSession(session_id, now)]
            /\ ret' = [NoRet EXCEPT !.task = t, !.op = "create_new_session",
                                    !.sid = session_id, !.out = "ok"]
    /\ task' = Issue(t, IdleTask)
    /\ UNCHANGED <<now, max_size, max_idle_minutes, cache, lock, waiters,
                   factory_calls, creations, removals, conv_store, config_store,
                   config_updated_at>>

\* ------------------------------------------- AgentConfigurationService
\* texts are sequences of characters
IsSpace(ch) == ch = " "

RECURSIVE lstrip(_)
lstrip(text) ==
    IF text # <<>> /\ IsSpace(Head(text)) THEN lstrip(Tail(text)) ELSE text

RECURSIVE rstrip(_)
rstrip(text) ==
    IF text # <<>> /\ IsSpace(text[Len(text)])
    THEN rstrip(SubSeq(text, 1, Len(text) - 1)) ELSE text

\* str.strip()
strip(text) == rstrip(lstrip(text))

\* MCPServerConfig(name, command, ...)
MCPServerConfig(name, command) == [name |-> name, command |-> command]

\* AgentConfiguration(name, mcp_servers, ...) before an id is assigned
AgentConfiguration(name, mcp_servers) == [name |-> name, mcp_servers |-> mcp_servers]

NameRequired == "Configuration name is required"
ServerRequired == "At least one MCP server must be configured"
NameAndCommandRequired == "MCP server must have name and command"
DuplicateName == "Duplicate MCP server name"
Valid == "valid"

SeenBeforeNever(name, seen_names) == FALSE

\* server.name in seen_names
SeenBefore(name, seen_names) == name \in seen_names

\* the loop of validate_configuration from server i on: the message of the first
\* ValueError raised, or Valid
RECURSIVE validate_servers(_, _, _)
validate_servers(mcp_servers, i, seen_names) ==
    IF i > Len(mcp_servers) THEN Valid
    ELSE LET server == mcp_servers[i] IN
         IF server.name = <<>> \/ server.command = <<>> THEN NameAndCommandRequired
         ELSE IF SeenBefore(server.name, seen_names) THEN DuplicateName
         ELSE validate_servers(mcp_servers, i + 1, seen_names \cup {server.name})

\* validate_configuration: the message of the ValueError it raises, or Valid
validate_configuration(config) ==
    IF strip(config.name) = <<>> THEN NameRequired
    ELSE IF config.mcp_servers = <<>> THEN ServerRequired
    ELSE validate_servers(config.mcp_servers, 1, {})

\* the names, descriptors and descriptor lists a client may send
ConfigNames == {<<>>, <<" ">>, <<"a">>, <<" ", "a", " ">>}
ServerNames == {<<>>, <<" ">>, <<"a">>, <<"b">>}
Commands == {<<>>, <<"x">>}
Servers == {MCPServerConfig(n, c) : n \in ServerNames, c \in Commands}
ServerLists == UNION {[1..k -> Servers] : k \in 0..MaxServers}

RaisedNever(verdict) == FALSE

\* self.validate_configuration(config) raised: create_configuration stops there
Raised(verdict) == verdict # Valid

\* MongoAgentConfigurationRepository.create_config: insert_one under config_id
create_config(store, id) == store \cup {id}

\* AgentConfigurationService.create_configuration: build, validate, and store
\* under a fresh config_id; a failed validation raises and stores nothing
create_configuration(t) ==
    LET config == task[t].config
        verdict == validate_configuration(config)
    IN /\ task[t].pc = "create_config"
       /\ IF Raised(verdict)
          THEN /\ config_store' = config_store
               /\ config_updated_at' = config_updated_at
               /\ ret' = [NoRet EXCEPT !.task = t, !.op = "create_config",
                                       !.out = "invalid", !.error = verdict,
                                       !.config = config]
          ELSE \E id \in Configs \ config_store :
               /\ config_store' = create_config(config_store, id)
               /\ config_updated_at' = [config_updated_at EXCEPT ![id] = now]
               /\ ret' = [NoRet EXCEPT !.task = t, !.op = "create_config", !.out = "ok",
                                       !.cfg = id, !.config = config]
       /\ task' = [task EXCEPT ![t] = IdleTask]
       /\ UNCHANGED <<now, max_size, max_idle_minutes, cache, lock, waiters,
                      factory_calls, creations, removals, conv_store, _sessions>>

Tick ==
    /\ now < MaxTime
    /\ now' = now + 1
    /\ ret' = NoRet
    /\ UNCHANGED <<max_size, max_idle_minutes, cache, lock, waiters, task,
                   factory_calls, creations, removals, stores>>

\* ------------------------------------------------------------ specification
\* the state after AgentInstanceCache.__init__(max_size, max_idle_minutes)
InitCacheWith(sizes, idles) ==
    /\ now = 0
    /\ max_size \in sizes
    /\ max_idle_minutes \in idles
    /\ cache = <<>>
    /\ lock = NoTask
    /\ waiters = <<>>
    /\ task = [t \in Tasks |-> IdleTask]
    /\ factory_calls = [c \in Configs |-> 0]
    /\ creations = [c \in Configs |-> 0]
    /\ removals = [c \in Configs |-> 0]
    /\ ret = NoRet

\* nothing stored
InitWith(sizes, idles) ==
    /\ InitCacheWith(sizes, idles)
    /\ conv_store = [s \in Sessions |-> NoDoc]
    /\ config_store = {}
    /\ config_updated_at = [c \in Configs |-> 0]
    /\ _sessions = [s \in Sessions |-> NoAgentSession]

CacheNext(reqs, ids) ==
    \/ \E t \in reqs, id \in ids : get_or_create_agent(t, id)
    \/ \E t \in Tasks : Wake(t)
    \/ \E t \in reqs : FactoryReturn(t)
    \/ \E t \in reqs : FactoryRaise(t)
    \/ evict_stale_agents(Maint)
    \/ clear_cache(Maint)
    \/ get_cache_stats(Maint)
    \/ Tick

\* one request at a time over three configurations: recency order and eviction
InitLRU == InitWith({0, 1, 2}, IdleChoices)
NextLRU ==
    \/ \E id \in Configs : get_or_create_agent("t1", id)
    \/ FactoryReturn("t1")
    \/ FactoryRaise("t1")
    \/ Tick
SpecLRU == InitLRU /\ [][NextLRU]_vars

\* two concurrent requests and the maintenance task over two configurations
InitCache == InitWith({0, 1}, IdleChoices)
NextCache == CacheNext(Requests, {"c1", "c2"})
SpecCache == InitCache /\ [][NextCache]_vars

\* one request at a time over three configurations in a cache that can hold all
\* of them, with the maintenance task calling evict_stale_agents and
\* get_cache_stats, also while a factory call is awaited
InitMaint == InitWith({3}, IdleChoices)
NextMaint ==
    \/ \E id \in Configs : get_or_create_agent("t1", id)
    \/ FactoryReturn("t1")
    \/ evict_stale_agents(Maint)
    \/ get_cache_stats(Maint)
    \/ Wake(Maint)
    \/ Tick
SpecMaint == InitMaint /\ [][NextMaint]_vars

\* two concurrent requests and the maintenance task under fair scheduling: the
\* event loop resumes the first waiter of a released lock, and every factory call
\* returns or raises; a call is issued only while the counters leave room for it
\* and for the calls queued before it
Headroom(id) ==
    LET GocWaiting == {u \in Requests : task[u].pc = "waiting" /\ task[u].op = "goc"}
        UsesSoFar == IF InCache(cache, id) /\ GetItem(cache, id).usage_count > 1
                     THEN GetItem(cache, id).usage_count ELSE 1
    IN /\ SumOver(factory_calls, Configs) + Cardinality(GocWaiting) + 1 <= MaxCreate
       /\ UsesSoFar + Cardinality({u \in GocWaiting : task[u].cfg = id}) + 1 <= MaxUsage
InitLive == InitWith({1}, IdleChoices)
NextLive ==
    \/ Headroom("c1") /\ get_or_create_agent("t1", "c1")
    \/ Headroom("c2") /\ get_or_create_agent("t2", "c2")
    \/ \E t \in Tasks : Wake(t)
    \/ \E t \in Requests : FactoryReturn(t)
    \/ \E t \in Requests : FactoryRaise(t)
    \/ evict_stale_agents(Maint)
    \/ clear_cache(Maint)
    \/ Tick
Fairness ==
    /\ \A t \in Tasks : WF_vars(Wake(t))
    /\ \A t \in Requests : WF_vars(FactoryReturn(t) \/ FactoryRaise(t))
SpecLive == InitLive /\ [][NextLive]_vars /\ Fairness

\* the conversations in `started` were started for configuration c1 at time 0
\* and nothing else is stored
InitStarted(started) ==
    /\ InitCacheWith({1}, IdleChoices)
    /\ conv_store = [s \in Sessions |->
            IF s \in started THEN SessionDoc(ConversationSession(s, "c1", 0)) ELSE NoDoc]
    /\ config_store = {"c1"}
    /\ config_updated_at = [c \in Configs |-> 0]
    /\ _sessions = [s \in Sessions |-> NoAgentSession]

\* one client executes on the started conversation s1 and on s3, which was never
\* started; the factory, the engine and the store may fail; s1 and its
\* configuration may be deleted
InitExec == InitStarted({"s1"})
NextExec ==
    \/ \E sid \in {"s1", "s3"}, msg \in Messages : execute("t1", sid, msg)
    \/ ExecGetConfig("t1")
    \/ FactoryReturn("t1")
    \/ FactoryRaise("t1")
    \/ InvokeReturn("t1")
    \/ InvokeReturnBlocks("t1")
    \/ InvokeRaise("t1")
    \/ PersistOk("t1")
    \/ PersistFail("t1")
    \/ PersistErrOk("t1")
    \/ PersistErrFail("t1")
    \/ delete_session("s1")
    \/ delete_config("c1")
    \/ Tick
SpecExec == InitExec /\ [][NextExec]_vars

\* the same client also sends streaming requests
InitStream == InitStarted({"s1"})
NextStream ==
    \/ \E sid \in {"s1", "s3"}, msg \in Messages : execute("t1", sid, msg)
    \/ ExecGetConfig("t1")
    \/ FactoryReturn("t1")
    \/ FactoryRaise("t1")
    \/ InvokeReturn("t1")
    \/ InvokeRaise("t1")
    \/ PersistOk("t1")
    \/ PersistFail("t1")
    \/ PersistErrOk("t1")
    \/ PersistErrFail("t1")
    \/ delete_session("s1")
    \/ delete_config("c1")
    \/ Tick
    \/ \E sid \in {"s1", "s3"}, msg \in Messages : stream_execute("t1", sid, msg)
    \/ StreamGetConfig("t1")
    \/ StreamGetConfigFail("t1")
    \/ StreamNext("t1")
    \/ StreamCancel("t1")
SpecStream == InitStream /\ [][NextStream]_vars

\* two clients on the same conversation, with different messages: their executes
\* run concurrently; the engine may fail
InitSame == InitStarted({"s1"})
NextSame ==
    \/ execute("t1", "s1", <<"hi">>)
    \/ execute("t2", "s1", <<"bye">>)
    \/ \E t \in Requests : ExecGetConfig(t)
    \/ \E t \in Requests : Wake(t)
    \/ \E t \in Requests : FactoryReturn(t)
    \/ \E t \in Requests : InvokeReturn(t)
    \/ \E t \in Requests : InvokeRaise(t)
    \/ \E t \in Requests : PersistOk(t)
    \/ \E t \in Requests : PersistErrOk(t)
    \/ Tick
SpecSame == InitSame /\ [][NextSame]_vars

\* two clients, each on its own conversation, both conversations of configuration
\* c1: the executes run concurrently; the factory may fail, and an entry left
\* idle becomes stale
InitShare == InitStarted({"s1", "s2"})
NextShare ==
    \/ \E msg \in Messages : execute("t1", "s1", msg)
    \/ \E msg \in Messages : execute("t2", "s2", msg)
    \/ \E t \in Requests : ExecGetConfig(t)
    \/ \E t \in Requests : Wake(t)
    \/ \E t \in Requests : FactoryReturn(t)
    \/ \E t \in Requests : FactoryRaise(t)
    \/ \E t \in Requests : InvokeReturn(t)
    \/ \E t \in Requests : PersistOk(t)
    \/ \E t \in Requests : PersistErrOk(t)
    \/ Tick
SpecShare == InitShare /\ [][NextShare]_vars

\* a client starts conversations for the stored configurations c1 and c2 and for
\* c3, which is not stored, with explicit or generated session ids, and creates
\* legacy sessions; another starts s2 for c2; s1 was started for c1 and exists as
\* a legacy session
InitStart ==
    /\ InitCacheWith({1}, IdleChoices)
    /\ conv_store = [s \in Sessions |->
            IF s = "s1" THEN SessionDoc(ConversationSession(s, "c1", 0)) ELSE NoDoc]
    /\ config_store = {"c1", "c2"}
    /\ config_updated_at = [c \in Configs |-> 0]
    /\ _sessions = [s \in Sessions |->
            IF s = "s1" THEN AgentSession(s, 0) ELSE NoAgentSession]
NextStart ==
    \/ \E config_id \in Configs, session_id \in {"s1", "s2", NoSid} :
          start_conversation("t1", config_id, session_id)
    \/ start_conversation("t2", "c2", "s2")
    \/ \E t \in Requests : StartInsert(t)
    \/ \E session_id \in {"s1", "s2"} : create_new_session("t1", session_id)
    \/ Tick
SpecStart == InitStart /\ [][NextStart]_vars

\* one client executes on s1, which was started before, another starts it again
\* when it is gone; s1 and s2, which is never started, may be deleted and asked for
InitDelete == InitStarted({"s1"})
NextDelete ==
    \/ \E msg \in Messages : execute("t1", "s1", msg)
    \/ ExecGetConfig("t1")
    \/ FactoryReturn("t1")
    \/ InvokeReturn("t1")
    \/ PersistOk("t1")
    \/ start_conversation("t2", "c1", "s1")
    \/ StartInsert("t2")
    \/ \E sid \in {"s1", "s2"} : delete_session(sid)
    \/ \E sid \in {"s1", "s2"} : get_conversation_details(sid)
    \/ Tick
SpecDelete == InitDelete /\ [][NextDelete]_vars

\* one request at a time for the stored configurations c1 and c2; c1 may be
\* updated and deleted meanwhile; the maintenance task evicts and clears
InitChange ==
    /\ InitCacheWith({1}, IdleChoices)
    /\ conv_store = [s \in Sessions |-> NoDoc]
    /\ config_store = {"c1", "c2"}
    /\ config_updated_at = [c \in Configs |-> 0]
    /\ _sessions = [s \in Sessions |-> NoAgentSession]
NextChange ==
    \/ \E id \in {"c1", "c2"} : get_or_create_agent("t1", id)
    \/ FactoryReturn("t1")
    \/ update_config("c1")
    \/ delete_config("c1")
    \/ evict_stale_agents(Maint)
    \/ clear_cache(Maint)
    \/ Wake(Maint)
    \/ Tick
SpecChange == InitChange /\ [][NextChange]_vars

\* the message sequences a session handed to the conversation repository may
\* hold; a ToolMessage stands for the classes _deserialize_messages does not know
AnyMessages ==
    {[cls |-> c, content |-> x] :
        c \in {"HumanMessage", "AIMessage", "SystemMessage", "ToolMessage"},
        x \in {<<"hi">>, BlockContent}}
MessageLists == UNION {[1..k -> AnyMessages] : k \in 0..MaxHistory}

\* create_session is about to insert a session s1 that holds some message sequence
InitRoundTrip ==
    /\ now = 0
    /\ max_size = 1
    /\ max_idle_minutes \in IdleChoices
    /\ cache = <<>>
    /\ lock = NoTask
    /\ waiters = <<>>
    /\ factory_calls = [c \in Configs |-> 0]
    /\ creations = [c \in Configs |-> 0]
    /\ removals = [c \in Configs |-> 0]
    /\ ret = NoRet
    /\ conv_store = [s \in Sessions |-> NoDoc]
    /\ config_store = {"c1"}
    /\ config_updated_at = [c \in Configs |-> 0]
    /\ _sessions = [s \in Sessions |-> NoAgentSession]
    /\ \E messages \in MessageLists :
          task = [t \in Tasks |->
                    IF t = "t1"
                    THEN [IdleTask EXCEPT !.pc = "insert", !.op = "start", !.cfg = "c1",
                            !.sid = "s1",
                            !.session = [ConversationSession("s1", "c1", 0)
                                            EXCEPT !.messages = messages]]
                    ELSE IdleTask]
NextRoundTrip == StartInsert("t1")
SpecRoundTrip == InitRoundTrip /\ [][NextRoundTrip]_vars

\* a client has called create_configuration with some name and some tool servers;
\* c1 may be stored already
InitValidate ==
    /\ now = 0
    /\ max_size = 1
    /\ max_idle_minutes \in IdleChoices
    /\ cache = <<>>
    /\ lock = NoTask
    /\ waiters = <<>>
    /\ \E name \in ConfigNames, mcp_servers \in ServerLists :
          task = [t \in Tasks |->
                    IF t = "t1"
                    THEN [IdleTask EXCEPT !.pc = "create_config", !.op = "create_config",
                                          !.config = AgentConfiguration(name, mcp_servers)]
                    ELSE IdleTask]
    /\ factory_calls = [c \in Configs |-> 0]
    /\ creations = [c \in Configs |-> 0]
    /\ removals = [c \in Configs |-> 0]
    /\ ret = NoRet
    /\ conv_store = [s \in Sessions |-> NoDoc]
    /\ config_store \in {{}, {"c1"}}
    /\ config_updated_at = [c \in Configs |-> 0]
    /\ _sessions = [s \in Sessions |-> NoAgentSession]
NextValidate == create_configuration("t1")
SpecValidate == InitValidate /\ [][NextValidate]_vars

\* ------------------------------------------------------------------ claims
\* t and u are two finished, successful get_or_create_agent calls for the same
\* config_id, both issued while no entry for it existed, and in flight together
RacedPair(t, u) ==
    /\ t # u
    /\ task[t].pc = "done" /\ task[u].pc = "done"
    /\ task[t].op = "goc" /\ task[u].op = "goc"
    /\ task[t].out = "ok" /\ task[u].out = "ok"
    /\ task[t].cfg = task[u].cfg
    /\ task[t].absent /\ task[u].absent
    /\ u \in task[t].overlap /\ t \in task[u].overlap

OneCreationShared(t, u) ==
    /\ task[t].agent = task[u].agent
    /\ task[t].invoked # task[u].invoked

\* C1 as stated: any two interleaved get_or_create_agent calls for one config_id,
\* issued while no entry for it exists, invoke the factory exactly once between
\* them and return the same handle.
C1_Original ==
    \A t \in Requests, u \in Requests : RacedPair(t, u) => OneCreationShared(t, u)

\* C1 amended: the same, provided no entry for that config_id leaves the cache
\* (LRU eviction, including the eviction of the new entry itself when max_size is
\* 0, clear_cache, evict_stale_agents, or removal as stale) while the calls are in
\* flight.
C1_RaceSharesOneCreation ==
    \A t \in Requests, u \in Requests :
        (RacedPair(t, u) /\ ~task[t].disturbed /\ ~task[u].disturbed)
            => OneCreationShared(t, u)

C1_Witness ==
    /\ RacedPair("t1", "t2")
    /\ ~task["t1"].disturbed /\ ~task["t2"].disturbed
    /\ task["t1"].invoked /\ ~task["t2"].invoked
    /\ task["t1"].agent = task["t2"].agent
    /\ task["t1"].agent > 0

\* the step in which task t's get_or_create_agent for id looks id up under the lock
LookupStep(t, id) ==
    /\ task[t].pc \in {"idle", "done", "waiting"}
    /\ \/ task'[t].pc = "factory" /\ task'[t].cfg = id
       \/ ret'.task = t /\ ret'.op = "goc" /\ ret'.cfg = id

\* the step in which the factory call of task t's get_or_create_agent returns
InsertStep(t) ==
    /\ task[t].pc = "factory"
    /\ ret'.task = t /\ ret'.out = "ok"

LastUsedOf(c, id, fresh) == IF InCache(c, id) THEN GetItem(c, id).last_used ELSE fresh

\* C2: when the cache holds max_size entries and get_or_create_agent inserts an
\* entry for a further config_id, exactly one entry leaves the cache, its last_used
\* is the oldest of all entries (the new one included), and every other entry stays
\* as it was.
C2_FullCacheEvictsOldest ==
    [][\A t \in Requests :
        (InsertStep(t) /\ Len(cache) = max_size /\ ~InCache(cache, task[t].cfg))
        => LET new == task[t].cfg
               victims == (Keys(cache) \cup {new}) \ Keys(cache')
           IN /\ Cardinality(victims) = 1
              /\ \A v \in victims :
                    /\ \A i \in 1..Len(cache) :
                          LastUsedOf(cache, v, now) <= cache[i].last_used
                    /\ LastUsedOf(cache, v, now) <= now
              /\ \A i \in 1..Len(cache) :
                    cache[i].config_id \notin victims
                        => \E j \in 1..Len(cache') : cache'[j] = cache[i]
              /\ Len(cache') = max_size
    ]_vars

\* agent 2 was evicted although agent 1 was created before it: agent 1 had been
\* reused since
C2_Witness ==
    /\ max_size = 2 /\ Len(cache) = 2
    /\ ret.op = "goc" /\ ret.out = "ok" /\ ret.agent = 3
    /\ cache[1].agent = 1 /\ cache[1].usage_count = 2
    /\ cache[2].agent = 3 /\ cache[2].usage_count = 1
    /\ cache[1].last_used < now
    /\ SumOver(factory_calls, Configs) = 3
    /\ SumOver(removals, Configs) = 1

\* C3: in every state, and in every snapshot get_cache_stats returns, the cache
\* holds at most max_size entries.
C3_SizeWithinCapacity ==
    /\ Len(cache) <= max_size
    /\ ret.op = "stats" =>
          /\ ret.stats.size <= ret.stats.max_size
          /\ ret.stats.size = Len(ret.stats.agents)
          /\ ret.stats.max_size = max_size

C3_Witness ==
    /\ ret.op = "stats"
    /\ max_size = 1
    /\ ret.stats.size = 1
    /\ SumOver(creations, Configs) >= 2
    /\ \E c \in Configs : removals[c] >= 1 /\ ~InCache(cache, c)

\* C4: a lookup that finds an entry idle for more than max_idle_minutes removes it
\* and invokes the factory once; a lookup that finds an entry idle for
\* max_idle_minutes or less returns its handle without invoking the factory; and
\* the instance a factory call returns enters the cache with created_at = now and
\* usage_count 1 under a handle no entry had before.
C4_StaleIsRecreated ==
    [][\A t \in Requests :
        /\ \A id \in Configs :
            (LookupStep(t, id) /\ InCache(cache, id)) =>
                LET e == GetItem(cache, id) IN
                IF now - e.last_used > max_idle_minutes
                THEN /\ ~InCache(cache', id)
                     /\ task'[t].pc = "factory"
                     /\ factory_calls'[id] = factory_calls[id] + 1
                     /\ \A c \in Configs \ {id} : factory_calls'[c] = factory_calls[c]
                ELSE /\ factory_calls' = factory_calls
                     /\ ret'.out = "ok" /\ ret'.agent = e.agent
                     /\ InCache(cache', id)
                     /\ GetItem(cache', id).created_at = e.created_at
        /\ (InsertStep(t) /\ max_size > 0) =>
                /\ InCache(cache', task[t].cfg)
                /\ LET n == GetItem(cache', task[t].cfg) IN
                      /\ n.created_at = now /\ n.last_used = now
                      /\ n.usage_count = 1
                      /\ n.agent = ret'.agent
                      /\ \A i \in 1..Len(cache) : cache[i].agent # n.agent
                /\ factory_calls' = factory_calls
    ]_vars

\* a config_id created at time 0, found stale, and created again
C4_Witness ==
    /\ \E c \in Configs :
          /\ InCache(cache, c)
          /\ GetItem(cache, c).created_at = 2
          /\ GetItem(cache, c).usage_count = 1
          /\ creations[c] = 2 /\ removals[c] = 1
          /\ ret.cfg = c /\ ret.out = "ok" /\ ret.agent = GetItem(cache, c).agent
    /\ max_size = 2 /\ Len(cache) = 1
    /\ now = 2

\* C5: a lookup that finds a live, non-stale entry returns that entry's handle,
\* invokes no factory, sets the entry's last_used to now, adds exactly 1 to its
\* usage_count, puts it last in the order, and leaves every other entry, their
\* order and the size of the cache as they were.
C5_HitRefreshesOnlyTheEntry ==
    [][\A t \in Requests, id \in Configs :
        (/\ LookupStep(t, id)
         /\ InCache(cache, id)
         /\ now - GetItem(cache, id).last_used <= max_idle_minutes)
        => LET e == GetItem(cache, id) IN
           /\ ret'.out = "ok" /\ ret'.agent = e.agent
           /\ factory_calls' = factory_calls
           /\ creations' = creations
           /\ Len(cache') = Len(cache)
           /\ cache'[Len(cache')] =
                [config_id |-> id, agent |-> e.agent, created_at |-> e.created_at,
                 last_used |-> now, usage_count |-> e.usage_count + 1]
           /\ \A i \in 1..(Len(cache) - 1) :
                cache'[i] = SelectSeq(cache, LAMBDA x : x.config_id # id)[i]
    ]_vars

\* the entry created first was at the front, was reused, and is now last
C5_Witness ==
    /\ Len(cache) = 2
    /\ ret.op = "goc" /\ ret.out = "ok"
    /\ ret.agent = cache[2].agent
    /\ cache[2].agent < cache[1].agent
    /\ cache[2].usage_count = 2
    /\ cache[2].last_used = now /\ cache[2].created_at < now
    /\ factory_calls = creations

\* an entry for config_id c is in the cache and has been idle for at most
\* max_idle_minutes
FreshEntry(c) ==
    \E i \in 1..Len(cache) :
        cache[i].config_id = c /\ now - cache[i].last_used <= max_idle_minutes

EntryAgent(ch, c) == ch[CHOOSE i \in 1..Len(ch) : ch[i].config_id = c].agent

\* the step in which the execute of task t receives its engine from the cache
EngineGiven(t) ==
    /\ task[t].op = "exec"
    /\ task[t].pc \in {"get_config", "waiting", "factory"}
    /\ task'[t].pc = "invoke"

\* C6: while an entry for a config_id stays in the cache and is not stale, no step
\* invokes the factory for that config_id and every execute, of whatever session,
\* that asks for the engine of that config_id receives the entry's engine; and as
\* long as no entry of a config_id has left the cache (evicted, removed as stale or
\* cleared), the factory has returned an engine for it at most once and all
\* executes holding an engine for it hold the same one.
C6_SameConfigSharesEngine ==
    /\ [](\A c \in Configs :
            /\ removals[c] = 0 => creations[c] <= 1
            /\ \A t \in Requests, u \in Requests :
                (/\ task[t].pc \in {"invoke", "persist"}
                 /\ task[u].pc \in {"invoke", "persist"}
                 /\ task[t].cfg = c /\ task[u].cfg = c
                 /\ removals[c] = 0)
                => task[t].agent = task[u].agent)
    /\ [][\A c \in Configs :
            FreshEntry(c) =>
                /\ factory_calls'[c] = factory_calls[c]
                /\ \A t \in Requests :
                    (EngineGiven(t) /\ task[t].cfg = c)
                        => task'[t].agent = EntryAgent(cache, c)
                /\ (removals'[c] = removals[c]) =>
                        /\ \E i \in 1..Len(cache') : cache'[i].config_id = c
                        /\ EntryAgent(cache', c) = EntryAgent(cache, c)
       ]_vars

\* the executes of two different sessions of configuration c1 are both at
\* agent.ainvoke with the same engine, after one factory call
C6_Witness ==
    /\ task["t1"].pc = "invoke" /\ task["t2"].pc = "invoke"
    /\ task["t1"].sid = "s1" /\ task["t2"].sid = "s2"
    /\ task["t1"].cfg = "c1" /\ task["t2"].cfg = "c1"
    /\ task["t1"].agent = task["t2"].agent
    /\ task["t1"].agent > 0
    /\ factory_calls["c1"] = 1
    /\ Len(cache) = 1 /\ cache[1].usage_count = 2

\* the execute that just returned or raised, if any
ExecEnded == ret.op = "exec" /\ ret.out \in {"ok", "failed"}

Persisted(sid) == conv_store[sid].langchain_messages

StoredBefore(session) == [i \in 1..Len(session.messages) |->
    [type |-> session.messages[i].cls, content |-> session.messages[i].content]]

C8_EngineFailureBecomesApology ==
    (ExecEnded /\ ret.cause = "engine")
    => /\ ret.session.messages = ret.loaded.messages \o
            <<[cls |-> "HumanMessage", content |-> ret.msg],
              [cls |-> "AIMessage",
               content |-> <<"I apologize, but I encountered an error: ", EngineError>>]>>
       /\ ret.out = "failed" => ret.error = StoreError
       /\ ret.out = "ok" =>
            /\ ret.response = <<"I apologize, but I encountered an error: ", EngineError>>
            /\ ret.message_count = Len(ret.loaded.messages) + 2
            /\ conv_store[ret.sid]._id = ret.sid =>
                /\ Persisted(ret.sid) = StoredBefore(ret.session)
                /\ conv_store[ret.sid].message_history = ret.session.message_history
                /\ conv_store[ret.sid].updated_at > ret.loaded.updated_at

\* the engine raised in the second execute on s1 and the apology is persisted
C8_Witness ==
    /\ ExecEnded /\ ret.out = "ok" /\ ret.cause = "engine"
    /\ ret.sid = "s1"
    /\ Len(Persisted("s1")) = 4
    /\ Persisted("s1")[4] =
         [type |-> "AIMessage",
          content |-> <<"I apologize, but I encountered an error: ", EngineError>>]
    /\ Persisted("s1")[2].content = AnswerText

AssistantTurns(messages) ==
    Cardinality({i \in 1..Len(messages) : messages[i].cls = "AIMessage"})

StoredAssistantTurns(serialized) ==
    Cardinality({i \in 1..Len(serialized) : serialized[i].type = "AIMessage"})

\* C9 as stated: whatever fails during an execute, its session object never holds
\* more than one assistant turn beyond those loaded, and neither does the
\* persisted session once the execute has ended.
C9_AtMostOneAssistantTurn ==
    /\ \A t \in Requests :
          task[t].op = "exec" =>
              AssistantTurns(task[t].session.messages)
                  <= AssistantTurns(task[t].loaded.messages) + 1
    /\ (ExecEnded /\ conv_store[ret.sid]._id = ret.sid) =>
          StoredAssistantTurns(Persisted(ret.sid))
              <= AssistantTurns(ret.loaded.messages) + 1

\* the step in which task t calls execute for sid
ExecuteCalled(t, sid) ==
    /\ task[t].pc \in {"idle", "done"}
    /\ \/ task'[t].op = "exec" /\ task'[t].sid = sid
       \/ ret'.task = t /\ ret'.op = "exec" /\ ret'.sid = sid

\* C10: an execute for a session_id that has no document in the conversation store
\* ends at once with the not-found error, and that step changes neither store, nor
\* the cache, its lock or its queue, invokes no factory, and leaves the task with
\* no engine and nothing pending.
C10_UnknownSessionNotFound ==
    [][\A t \in Requests, sid \in Sessions :
        (ExecuteCalled(t, sid) /\ conv_store[sid]._id # sid)
        => /\ ret'.out = "not_found"
           /\ conv_store' = conv_store
           /\ config_store' = config_store
           /\ cache' = cache /\ lock' = lock /\ waiters' = waiters
           /\ factory_calls' = factory_calls
           /\ creations' = creations /\ removals' = removals
           /\ task'[t].pc = "idle" /\ task'[t].agent = 0
    ]_vars

\* s3 was never started: the execute for it failed, after an execute on s1 had
\* filled the store and the cache
C10_Witness ==
    /\ ret.op = "exec" /\ ret.out = "not_found" /\ ret.sid = "s3"
    /\ Len(Persisted("s1")) = 2
    /\ Len(cache) = 1
    /\ factory_calls["c1"] = 1

\* C11: when get_config finds no configuration for the session's config_id, the
\* execute ends at once with the configuration-not-found error; neither the
\* load nor that step changes a store, so the persisted session, if still stored,
\* is as it was loaded, without the human turn; the cache, its lock and its queue
\* are untouched, no factory call is made and the task holds no engine.
C11_MissingConfigNotFound ==
    [][\A t \in Requests :
        /\ \A sid \in Sessions :
              ExecuteCalled(t, sid) =>
                  /\ conv_store' = conv_store /\ config_store' = config_store
                  /\ cache' = cache /\ factory_calls' = factory_calls
        /\ (/\ task[t].pc = "get_config" /\ task'[t].pc # "get_config"
            /\ task[t].cfg \notin config_store)
           => /\ ret'.task = t /\ ret'.op = "exec" /\ ret'.out = "config_not_found"
              /\ conv_store' = conv_store
              /\ config_store' = config_store
              /\ conv_store[task[t].sid]._id = task[t].sid =>
                    /\ Persisted(task[t].sid) = StoredBefore(task[t].loaded)
                    /\ conv_store[task[t].sid].updated_at = task[t].loaded.updated_at
              /\ cache' = cache /\ lock' = lock /\ waiters' = waiters
              /\ factory_calls' = factory_calls
              /\ creations' = creations /\ removals' = removals
              /\ task'[t].pc = "idle" /\ task'[t].agent = 0
    ]_vars

\* c1 was deleted after s1 had been executed once: the next execute on s1 failed,
\* the two persisted turns and the cached engine are as they were
C11_Witness ==
    /\ ret.op = "exec" /\ ret.out = "config_not_found" /\ ret.sid = "s1"
    /\ config_store = {}
    /\ Len(Persisted("s1")) = 2
    /\ Len(cache) = 1 /\ cache[1].usage_count = 1
    /\ factory_calls["c1"] = 1

\* C12: whenever an execute awaits agent.ainvoke, the messages it gave to the engine
\* are all the messages of the session as loaded from the store, in their order,
\* followed by the human message of the request as the last element.
C12_EngineGetsFullHistory ==
    \A t \in Requests :
        (task[t].op = "exec" /\ task[t].pc = "invoke")
        => /\ task[t].sent = task[t].loaded.messages \o
                <<[cls |-> "HumanMessage", content |-> task[t].msg]>>
           /\ Len(task[t].sent) = Len(task[t].loaded.messages) + 1
           /\ \A i \in 1..Len(task[t].loaded.messages) :
                task[t].sent[i] = task[t].loaded.messages[i]

\* the second execute on s1: the engine is given the two earlier turns and the
\* new human message
C12_Witness ==
    /\ task["t1"].op = "exec" /\ task["t1"].pc = "invoke" /\ task["t1"].sid = "s1"
    /\ Len(task["t1"].loaded.messages) = 2
    /\ Len(task["t1"].sent) = 3
    /\ task["t1"].sent[1].cls = "HumanMessage"
    /\ task["t1"].sent[2] = [cls |-> "AIMessage", content |-> AnswerText]
    /\ task["t1"].sent[3].cls = "HumanMessage"
    /\ Len(Persisted("s1")) = 2

\* the streaming request that just ended, if any
StreamOver == ret.op = "stream"

\* the texts of a sequence of fragments put one after the other
ConcatAll(frags) ==
    LET F[i \in 0..Len(frags)] == IF i = 0 THEN <<>> ELSE F[i - 1] \o frags[i]
    IN F[Len(frags)]

EventData(events) ==
    LET msgs == SelectSeq(events, LAMBDA e : e.type = "message")
    IN [i \in 1..Len(msgs) |-> msgs[i].data]

\* C13 as stated: once the consumer has received the completion event, the
\* persisted session, if still stored, is the loaded one followed by the human
\* turn and one assistant turn whose text is the concatenation of the fragments.
C13_StreamPersistsOneAssistantTurn ==
    (StreamOver /\ ret.out = "complete" /\ conv_store[ret.sid]._id = ret.sid)
    => Persisted(ret.sid) = StoredBefore(ret.loaded) \o
            <<[type |-> "HumanMessage", content |-> ret.msg],
              [type |-> "AIMessage", content |-> ConcatAll(EventData(ret.events))]>>

\* C14 as stated: after a streaming request on a stored session with a stored
\* configuration, exhausted or cancelled, the persisted session, if still stored,
\* holds the human turn of the request right after the turns that were loaded.
C14_StreamPersistsHumanTurn ==
    (StreamOver /\ ret.out \in {"complete", "cancelled"}
        /\ conv_store[ret.sid]._id = ret.sid)
    => /\ Len(Persisted(ret.sid)) > Len(ret.loaded.messages)
       /\ Persisted(ret.sid)[Len(ret.loaded.messages) + 1] =
            [type |-> "HumanMessage", content |-> ret.msg]

IsPrefix(p, q) == Len(p) <= Len(q) /\ \A i \in 1..Len(p) : p[i] = q[i]

ExpectedFragments(cfg) ==
    <<<<"Processing message with configuration '", cfg, "'...">>,
      <<"This is a ">>, <<"streamed ">>, <<"response">>>>

TypesOf(events) == [i \in 1..Len(events) |-> events[i].type]

\* C15: the events of a streaming request are, in order, message events carrying
\* the fragments in the order the generator yields them; when all fragments have
\* gone out the sequence ends with one completion event, which is the last event
\* and the only one; when the request fails the sequence ends with one error
\* event, the only one, and holds no completion event; a sequence the consumer
\* cut short holds message events only. No sequence is longer than the fragments
\* plus the final event.
C15_EventSequenceShape ==
    /\ \A t \in Requests :
          task[t].pc = "streaming" =>
              /\ \A i \in 1..Len(task[t].events) : task[t].events[i].type = "message"
              /\ IsPrefix(EventData(task[t].events), ExpectedFragments(task[t].cfg))
    /\ StreamOver =>
          LET ev == ret.events
              n == Len(ev)
              completions == {i \in 1..n : ev[i].type = "complete"}
              errors == {i \in 1..n : ev[i].type = "error"}
          IN /\ n <= Len(ExpectedFragments(ret.cfg)) + 1
             /\ \A i \in 1..n : ev[i].session_id = ret.sid
             /\ \A i \in 1..n : ev[i].type \in {"message", "complete", "error"}
             /\ IsPrefix(EventData(ev), ExpectedFragments(ret.cfg))
             /\ ret.out = "complete" =>
                    /\ completions = {n} /\ errors = {}
                    /\ EventData(ev) = ExpectedFragments(ret.cfg)
                    /\ \A i \in 1..(n - 1) : ev[i].type = "message"
             /\ ret.out = "error" =>
                    /\ errors = {n} /\ completions = {}
                    /\ ev[n].error # <<>>
             /\ ret.out = "cancelled" =>
                    /\ completions = {} /\ errors = {}
                    /\ n >= 1
             /\ ret.out \in {"complete", "error", "cancelled"}

\* a streaming request on s1, which holds two turns, ran to its completion event
C15_Witness ==
    /\ StreamOver /\ ret.out = "complete" /\ ret.sid = "s1"
    /\ Len(ret.events) = 5
    /\ ret.events[5].type = "complete"
    /\ ret.events[4].data = <<"response">>
    /\ Len(ret.loaded.messages) = 2

\* C16 as stated: every persisted message sequence is a sequence of pairs, a human
\* turn followed by one assistant turn.
C16_TurnsAlternate ==
    \A sid \in Sessions :
        LET p == Persisted(sid) IN
        /\ Len(p) % 2 = 0
        /\ \A i \in 1..Len(p) :
              p[i].type = IF i % 2 = 1 THEN "HumanMessage" ELSE "AIMessage"

\* the step in which the update_session of task t's execute replaces the stored
\* document of sid
WriteStep(t, sid) ==
    /\ task[t].op = "exec" /\ task[t].sid = sid
    /\ task[t].pc \in {"persist", "persist_err"}
    /\ ret'.task = t /\ ret'.out = "ok"
    /\ conv_store[sid]._id = sid

\* C17 as stated: every update_session of an execute writes a message sequence
\* of which the sequence persisted until then is a prefix.
C17_Original ==
    [][\A t \in Requests, sid \in Sessions :
        WriteStep(t, sid)
        => IsPrefix(Persisted(sid), conv_store'[sid].langchain_messages)
    ]_vars

\* C17 amended: the same, for an execute during which no other execute has
\* replaced the stored messages of the session since it loaded them; its write
\* then adds turns at the end and changes none.
C17_AppendOnlyWhenNotOverlapped ==
    [][\A t \in Requests, sid \in Sessions :
        (WriteStep(t, sid) /\ Persisted(sid) = StoredBefore(task[t].loaded))
        => /\ IsPrefix(Persisted(sid), conv_store'[sid].langchain_messages)
           /\ Len(conv_store'[sid].langchain_messages) > Len(Persisted(sid))
    ]_vars

\* the execute of t2 loaded the two turns the execute of t1 had persisted and
\* wrote them back followed by its own two
C17_Witness ==
    /\ ExecEnded /\ ret.out = "ok" /\ ret.task = "t2" /\ ret.sid = "s1"
    /\ Len(ret.loaded.messages) = 2
    /\ Len(Persisted("s1")) = 4
    /\ Persisted("s1")[1].content = <<"hi">>
    /\ Persisted("s1")[3].content = <<"bye">>

\* the write of task t's execute lands on a document that another execute has
\* replaced since t loaded it
OverwritesOther(t, sid) ==
    WriteStep(t, sid) /\ Persisted(sid) # StoredBefore(task[t].loaded)

\* C18: nothing guards the full-session replace against a concurrent one. Every
\* write of an execute leaves in the store exactly the sequence that execute built
\* from its own load; when another execute has persisted since that load, the
\* turns it persisted are not kept (what was stored is no prefix of what is stored
\* afterwards), and the overwriting execute still returns normally.
C18_LastWriterWins ==
    [][\A t \in Requests, sid \in Sessions :
        /\ WriteStep(t, sid)
           => conv_store'[sid].langchain_messages = StoredBefore(task[t].session)
        /\ OverwritesOther(t, sid)
           => /\ ~IsPrefix(Persisted(sid), conv_store'[sid].langchain_messages)
              /\ ret'.out = "ok" /\ ret'.error = "none"
    ]_vars

\* t1 and t2 both loaded the empty session; both were given the engine (two uses of
\* the cached instance) and t1 has returned; t2 returned last and only its two
\* turns are stored
C18_Witness ==
    /\ ExecEnded /\ ret.out = "ok" /\ ret.task = "t2" /\ ret.sid = "s1"
    /\ ret.loaded.messages = <<>>
    /\ task["t1"].pc = "idle"
    /\ InCache(cache, "c1") /\ GetItem(cache, "c1").usage_count = 2
    /\ Len(Persisted("s1")) = 2
    /\ Persisted("s1")[1].content = <<"bye">>

\* the role under which the orchestrator records a message of each class
RoleOf(cls) ==
    IF cls = "HumanMessage" THEN "human"
    ELSE IF cls = "AIMessage" THEN "assistant" ELSE "system"

\* message_history has one entry per message, with its role and its content
OneToOne(history, classes, contents) ==
    /\ Len(history) = Len(classes)
    /\ \A i \in 1..Len(history) :
          /\ i <= Len(classes)
          /\ history[i].role = RoleOf(classes[i])
          /\ history[i].content = contents[i]

SessionOneToOne(session) ==
    OneToOne(session.message_history,
             [i \in 1..Len(session.messages) |-> session.messages[i].cls],
             [i \in 1..Len(session.messages) |-> session.messages[i].content])

\* C19 as stated: in every session object an execute holds or returns, and in
\* every stored session, message_history has the length of the message sequence
\* and, at every index, the role and the content of the message at that index.
C19_HistoryOneToOne ==
    /\ \A t \in Requests : task[t].op \in {"exec", "stream"} => SessionOneToOne(task[t].session)
    /\ ret.op \in {"exec", "stream"} => SessionOneToOne(ret.session)
    /\ \A sid \in Sessions :
          LET doc == conv_store[sid] IN
          OneToOne(doc.message_history,
                   [i \in 1..Len(doc.langchain_messages) |-> doc.langchain_messages[i].type],
                   [i \in 1..Len(doc.langchain_messages) |-> doc.langchain_messages[i].content])

\* a text with a character that is no white space
NonBlank(text) == \E i \in 1..Len(text) : text[i] # " "

\* two descriptors of the list share a name
HasDuplicateNames(mcp_servers) ==
    \E i, j \in 1..Len(mcp_servers) : i # j /\ mcp_servers[i].name = mcp_servers[j].name

Acceptable(config) ==
    /\ NonBlank(config.name)
    /\ Len(config.mcp_servers) > 0
    /\ \A i \in 1..Len(config.mcp_servers) :
          Len(config.mcp_servers[i].name) > 0 /\ Len(config.mcp_servers[i].command) > 0
    /\ ~HasDuplicateNames(config.mcp_servers)

\* C20: a configuration passes validation exactly when its name is not blank, it
\* has at least one tool server, every tool server has a non-empty name and a
\* non-empty command, and no two tool servers share a name; every other
\* configuration, in particular every one with duplicate tool-server names, is
\* rejected with a validation error and is not stored.
C20_ValidateAcceptsExactly ==
    ret.op = "create_config"
    => /\ ret.out = "ok" <=> Acceptable(ret.config)
       /\ ret.out # "ok" =>
            /\ ret.out = "invalid"
            /\ ret.error \in {"Configuration name is required",
                              "At least one MCP server must be configured",
                              "MCP server must have name and command",
                              "Duplicate MCP server name"}
       /\ HasDuplicateNames(ret.config.mcp_servers) => ret.out = "invalid"

\* a configuration with a good name and two complete tool servers, both named
\* "a", was rejected for the duplicate
C20_Witness ==
    /\ ret.op = "create_config" /\ ret.out = "invalid"
    /\ ret.error = "Duplicate MCP server name"
    /\ ret.config.name = <<" ", "a", " ">>
    /\ Len(ret.config.mcp_servers) = 2
    /\ ret.config.mcp_servers[1] = [name |-> <<"a">>, command |-> <<"x">>]
    /\ ret.config.mcp_servers[2] = [name |-> <<"a">>, command |-> <<"x">>]
    /\ config_store = {} /\ task["t1"].pc = "idle"

\* the step in which task t's create_configuration runs
CreateStep(t) ==
    /\ task[t].pc = "create_config"
    /\ ret'.task = t /\ ret'.op = "create_config"

\* C21: a create_configuration with an invalid configuration raises the validation
\* error and leaves the configuration store as it was (no create_config); one with
\* a valid configuration stores it under a new id and returns that id.
C21_InvalidIsNotPersisted ==
    [][\A t \in Requests :
        CreateStep(t) =>
            IF Acceptable(task[t].config)
            THEN /\ ret'.out = "ok"
                 /\ ret'.cfg \notin config_store
                 /\ config_store' = config_store \cup {ret'.cfg}
                 /\ ret'.config = task[t].config
            ELSE /\ ret'.out = "invalid" /\ ret'.error # "none"
                 /\ ret'.cfg = NoConfig
                 /\ config_store' = config_store
    ]_vars

\* a configuration without tool servers was rejected and the store still holds
\* only c1
C21_Witness ==
    /\ ret.op = "create_config" /\ ret.out = "invalid"
    /\ ret.error = "At least one MCP server must be configured"
    /\ ret.config.name = <<"a">> /\ ret.config.mcp_servers = <<>>
    /\ config_store = {"c1"}

\* the assistant turns of an apology for a failure of the store
StoreApologies(messages) ==
    {i \in 1..Len(messages) :
        /\ messages[i].cls = "AIMessage"
        /\ messages[i].content = <<"I apologize, but I encountered an error: ", StoreError>>}

\* C22 as stated: when the store's update_session raises during an execute, the
\* failure reaches the caller as a failure of the store: the execute does not
\* return normally, its response is no apology, and no apology turn for the
\* failure is appended to the session.
C22_StoreFailurePropagates ==
    /\ \A t \in Requests :
          task[t].op = "exec" => StoreApologies(task[t].session.messages) = {}
    /\ (ExecEnded /\ ret.cause = "store") =>
          /\ ret.out = "failed" /\ ret.error = StoreError
          /\ StoreApologies(ret.session.messages) = {}

\* the step in which the insert_one of task t's start_conversation is answered
StartEnds(t) ==
    /\ task[t].op = "start" /\ task[t].pc = "insert"
    /\ ret'.task = t /\ ret'.op = "start"

\* the step in which a legacy create_new_session for sid runs
LegacyCreate(sid) == ret'.op = "create_new_session" /\ ret'.sid = sid

\* C23: a start_conversation whose session_id is already stored is rejected
\* (duplicate key) and a legacy create_new_session whose session_id already exists
\* is rejected ("already exists"); in both cases the existing session keeps its
\* messages, its config_id and its timestamps.
C23_DuplicateSessionRejected ==
    [][/\ \A t \in Requests :
            (StartEnds(t) /\ conv_store[task[t].sid]._id = task[t].sid)
            => /\ ret'.out = "duplicate"
               /\ conv_store'[task[t].sid] = conv_store[task[t].sid]
               /\ conv_store' = conv_store
       /\ \A sid \in Sessions :
            (LegacyCreate(sid) /\ _sessions[sid].session_id = sid)
            => /\ ret'.out = "exists"
               /\ _sessions' = _sessions
    ]_vars

\* a start_conversation for c2 with the id of s1, issued at time 1, was rejected:
\* s1 still belongs to c1 and carries the timestamps of time 0
C23_Witness ==
    /\ ret.op = "start" /\ ret.out = "duplicate" /\ ret.sid = "s1" /\ ret.cfg = "c2"
    /\ ret.session.created_at = 1
    /\ conv_store["s1"].config_id = "c1"
    /\ conv_store["s1"].created_at = 0 /\ conv_store["s1"].updated_at = 0

\* the step in which task t calls start_conversation for config_id
StartCalled(t, config_id) ==
    /\ task[t].pc \in {"idle", "done"}
    /\ \/ task'[t].op = "start" /\ task'[t].cfg = config_id
       \/ ret'.task = t /\ ret'.op = "start" /\ ret'.cfg = config_id

\* C24: a start_conversation for a config_id that is not in the configuration
\* store fails with "not found" at once and the conversation store stays as it
\* was: no session is created, then or later, for that call.
C24_StartUnknownConfigNotFound ==
    [][\A t \in Requests, config_id \in Configs :
        (StartCalled(t, config_id) /\ config_id \notin config_store)
        => /\ ret'.task = t /\ ret'.out = "not_found"
           /\ task'[t].pc = "idle"
           /\ conv_store' = conv_store /\ config_store' = config_store
    ]_vars

\* a start_conversation for c3 with the new id s2 failed and s2 is not stored
C24_Witness ==
    /\ ret.op = "start" /\ ret.out = "not_found" /\ ret.cfg = "c3" /\ ret.sid = "s2"
    /\ "c3" \notin config_store
    /\ conv_store["s2"] = NoDoc
    /\ task["t1"].pc = "idle"

\* the step in which an evict_stale_agents call runs its body under the lock
EvictStep == ret'.op = "evict" /\ ret'.out = "ok"

\* the entry was used no longer than max_idle_minutes ago
RecentlyUsed(e) == now - e.last_used <= max_idle_minutes

\* C25: evict_stale_agents leaves in the cache exactly the entries that are not
\* stale when it runs, each as it was (handle, created_at, last_used,
\* usage_count) and in the order they had, and makes no factory call.
C25_EvictRemovesExactlyStale ==
    [][EvictStep =>
        /\ cache' = SelectSeq(cache, RecentlyUsed)
        /\ \A i \in 1..Len(cache) :
              (\E j \in 1..Len(cache') : cache'[j] = cache[i]) <=> RecentlyUsed(cache[i])
        /\ factory_calls' = factory_calls /\ creations' = creations
    ]_vars

\* evict_stale_agents ran at time 2 on three entries and removed the one last
\* used at time 0; the two used at time 1 are left, in their order
C25_Witness ==
    /\ ret.op = "evict" /\ ret.out = "ok"
    /\ now = 2
    /\ Len(cache) = 2
    /\ cache[1].last_used = 1 /\ cache[2].last_used = 1
    /\ cache[1].config_id = "c2" /\ cache[2].config_id = "c3"
    /\ removals["c1"] = 1 /\ creations["c1"] = 1

\* the step in which a clear_cache call runs its body under the lock
ClearStep == ret'.op = "clear" /\ ret'.out = "ok"

\* the handles held by the entries of a cache
Handles(c) == {c[i].agent : i \in 1..Len(c)}

\* C26: clear_cache leaves the cache empty whatever its entries were, and a
\* get_or_create_agent that looks up any config_id in the empty cache calls the
\* factory; the handle it then returns is none that the cache holds.
C26_ClearEmptiesCache ==
    [][/\ ClearStep => cache' = <<>> /\ Len(cache') = 0
       /\ \A t \in Requests, id \in Configs :
            (LookupStep(t, id) /\ cache = <<>>)
            => /\ task'[t].pc = "factory"
               /\ factory_calls'[id] = factory_calls[id] + 1
               /\ ret'.task # t
       /\ \A t \in Requests :
            (InsertStep(t) /\ task[t].op = "goc")
            => /\ ret'.agent = task[t].agent
               /\ ret'.agent \notin Handles(cache)
               /\ ret'.agent > 0
    ]_vars

\* at time 0 the entry of c1, just created, was cleared from a cache of capacity
\* 1, and the next get_or_create_agent for c1 called the factory again and
\* returned the second handle
C26_Witness ==
    /\ ret.op = "goc" /\ ret.out = "ok" /\ ret.cfg = "c1" /\ ret.agent = 2
    /\ now = 0 /\ max_size = 1
    /\ factory_calls["c1"] = 2 /\ factory_calls["c2"] = 0
    /\ removals["c1"] = 1
    /\ Len(cache) = 1 /\ cache[1].agent = 2

\* the step in which a get_cache_stats call runs
StatsStep == ret'.op = "stats"

\* what a report of cache c says
ReportOf(c, cap) ==
    [size |-> Len(c), max_size |-> cap,
     agents |-> [i \in 1..Len(c) |->
        [config_id |-> c[i].config_id, created_at |-> c[i].created_at,
         last_used |-> c[i].last_used, usage_count |-> c[i].usage_count]]]

\* C27: get_cache_stats changes nothing: not an entry, not the order of the
\* entries, not the lock or its queue, not a counter; its report is determined by
\* the cache alone, so a second call on an unchanged cache reports the same size,
\* config_ids and usage_count values.
C27_StatsHasNoSideEffects ==
    [][StatsStep =>
        /\ cache' = cache
        /\ lock' = lock /\ waiters' = waiters
        /\ factory_calls' = factory_calls /\ creations' = creations
        /\ removals' = removals
        /\ \A t \in Requests : task'[t] = task[t]
        /\ ret'.stats = ReportOf(cache, max_size)
        /\ ret.op = "stats" => ret'.stats = ret.stats
    ]_vars

\* get_cache_stats reported three entries, the first of which is stale at time 2
\* and is still in its place
C27_Witness ==
    /\ ret.op = "stats" /\ ret.stats.size = 3
    /\ Len(cache) = 3 /\ now = 2
    /\ cache[1].last_used = 0 /\ cache[3].last_used = 2
    /\ ret.stats.agents[1].config_id = cache[1].config_id
    /\ ret.stats.agents[1].last_used = 0

\* some get_or_create_agent is inside `async with self._lock`, awaiting the factory
Creating == \E t \in Requests : task[t].pc = "factory"

\* the step in which the maintenance task calls evict_stale_agents or clear_cache
MaintCalled ==
    /\ task[Maint].pc \in {"idle", "done"}
    /\ \/ task'[Maint].pc = "waiting"
       \/ ret'.task = Maint /\ ret'.op \in {"evict", "clear"}

\* C28: evict_stale_agents and clear_cache run their bodies only when no
\* get_or_create_agent holds the lock; while one awaits the factory the lock is
\* held, a maintenance call made then queues up and changes nothing, and the only
\* step that changes the cache is the return of that factory call.
C28_MaintenanceNeverMidOperation ==
    [][/\ (EvictStep \/ ClearStep) => (~Creating /\ lock = NoTask)
       /\ Creating =>
            /\ lock # NoTask /\ task[lock].pc = "factory"
            /\ MaintCalled => (task'[Maint].pc = "waiting" /\ cache' = cache
                               /\ removals' = removals)
            /\ cache' # cache => \E t \in Requests : InsertStep(t)
    ]_vars

\* clear_cache ran from the lock's queue with t2 still queued behind it: it had
\* been called while the factory call for c1 was awaited, and it ran only after
\* the entry of c1 was inserted, which it removed
C28_Witness ==
    /\ ret.op = "clear" /\ ret.out = "ok" /\ ret.task = Maint
    /\ cache = <<>>
    /\ waiters = <<"t2">> /\ lock = NoTask
    /\ now = 0 /\ max_size = 1
    /\ creations["c1"] = 1 /\ removals["c1"] = 1
    /\ factory_calls["c1"] = 1 /\ factory_calls["c2"] = 0

\* the factory calls issued by the cache that have not returned or raised yet
FactoryInFlight == {t \in Requests : task[t].pc = "factory"}

\* C29: get_or_create_agent calls for different config_ids go through the one
\* lock: at most one factory call of the cache is in flight at any time, and while
\* one is, no other get_or_create_agent returns, not even as a cache hit.
C29_DifferentConfigsSerialize ==
    /\ [](Cardinality(FactoryInFlight) <= 1)
    /\ [][\A t \in FactoryInFlight :
            /\ (ret'.op = "goc" /\ ret'.out = "ok") => ret'.task = t
            /\ \A u \in Requests \ {t} :
                  /\ task'[u].pc # "factory"
                  /\ task[u].pc = "waiting" => task'[u].pc = "waiting"
         ]_vars

\* t1 awaits the factory for c2 while c1 is cached and fresh; t2 asked for c1,
\* which would be a hit, and waits for the lock
C29_Witness ==
    /\ task["t1"].pc = "factory" /\ task["t1"].cfg = "c2"
    /\ task["t2"].pc = "waiting" /\ task["t2"].op = "goc" /\ task["t2"].cfg = "c1"
    /\ Len(cache) = 1 /\ cache[1].config_id = "c1"
    /\ now - cache[1].last_used <= max_idle_minutes
    /\ lock = "t1" /\ waiters = <<"t2">>

\* task t has a cache call pending: queued for the lock or awaiting the factory
Pending(t) == task[t].pc \in {"waiting", "factory"}

\* C30: when the event loop resumes lock waiters and every factory call returns
\* or raises, every pending get_or_create_agent, evict_stale_agents and
\* clear_cache call completes, also behind a factory call that raises.
C30_EveryCallCompletes ==
    \A t \in Tasks : Pending(t) ~> ~Pending(t)

\* the factory call of t1 raised while t2 and the maintenance task were queued for
\* the lock
C30_Witness ==
    /\ ret.task = "t1" /\ ret.op = "goc" /\ ret.out = "raised"
    /\ lock = NoTask
    /\ waiters = <<"t2", Maint>>
    /\ task["t2"].pc = "waiting" /\ task[Maint].pc = "waiting"

\* C31: when the insertion of get_or_create_agent leaves the cache over capacity,
\* the call still returns the handle the factory created, without raising; if the
\* new entry is the only member it is the one evicted, and otherwise the entry at
\* the front, which was used no later than any other, is evicted, the new entry
\* stays, last in the order, and the entries between stay as they were.
C31_NoPinning ==
    [][\A t \in Requests :
        (InsertStep(t) /\ Len(cache) >= max_size)
        => LET id == task[t].cfg IN
           /\ ret'.task = t /\ ret'.out = "ok"
           /\ ret'.agent = task[t].agent /\ ret'.agent > 0
           /\ creations'[id] = creations[id] + 1
           /\ IF cache = <<>>
              THEN /\ cache' = <<>>
                   /\ removals'[id] = removals[id] + 1
              ELSE /\ Len(cache') = Len(cache)
                   /\ cache'[Len(cache')].config_id = id
                   /\ cache'[Len(cache')].agent = ret'.agent
                   /\ removals'[id] = removals[id]
                   /\ removals'[cache[1].config_id] = removals[cache[1].config_id] + 1
                   /\ ~InCache(cache', cache[1].config_id)
                   /\ \A i \in 1..Len(cache) : cache[1].last_used <= cache[i].last_used
                   /\ cache[1].last_used <= now
                   /\ \A i \in 2..Len(cache) : cache'[i - 1] = cache[i]
    ]_vars

\* a cache of capacity 0: the call returned agent 1 and the entry built for it
\* was evicted by the same call
C31_Witness ==
    /\ max_size = 0 /\ cache = <<>>
    /\ ret.op = "goc" /\ ret.out = "ok" /\ ret.agent = 1
    /\ \E c \in Configs : ret.cfg = c /\ creations[c] = 1 /\ removals[c] = 1

\* the messages are human, assistant and system messages only
KnownClasses(messages) ==
    \A i \in 1..Len(messages) :
        messages[i].cls \in {"HumanMessage", "AIMessage", "SystemMessage"}

SameTurns(a, b) ==
    /\ Len(a) = Len(b)
    /\ \A i \in 1..Len(a) : a[i].cls = b[i].cls /\ a[i].content = b[i].content

\* C32: a sequence of human, assistant and system messages that is serialized, and
\* the session written with it and read back, comes out with the same length, the
\* same order and, at each position, the same class and content.
C32_MessagesRoundTrip ==
    /\ \A t \in Requests :
          (task[t].pc = "insert" /\ KnownClasses(task[t].session.messages))
          => SameTurns(_deserialize_messages(_serialize_messages(task[t].session.messages)),
                       task[t].session.messages)
    /\ (ret.op = "start" /\ ret.out = "ok" /\ KnownClasses(ret.session.messages))
          => SameTurns(get_session(conv_store, ret.sid).messages, ret.session.messages)

\* s1 was written with a system, a human and an assistant message, the last one
\* with content blocks, and reads back as these three
C32_Witness ==
    /\ ret.op = "start" /\ ret.out = "ok" /\ ret.sid = "s1"
    /\ ret.session.messages =
          <<SystemMessage(<<"hi">>), HumanMessage(<<"hi">>), AIMessage(BlockContent)>>
    /\ get_session(conv_store, "s1").messages = ret.session.messages
    /\ Len(conv_store["s1"].langchain_messages) = 3

\* the step in which delete_conversation is called for sid
DeleteStep(sid) == ret'.op = "delete" /\ ret'.sid = sid

\* the step in which the details of sid are asked for
DetailsStep(sid) == ret'.op = "details" /\ ret'.sid = sid

\* C33: deleting a stored session succeeds, removes it and nothing else, and from
\* then on, until a conversation is started under that id again, the session is
\* absent: asking for its details reports not-found and an execute on it fails
\* with not-found; deleting an id that is not stored reports not-found and leaves
\* the store as it was; and a stored session stays stored, with details carrying
\* its id, its creation time and its history, through every step that is not its
\* deletion.
C33_DeleteRemovesSession ==
    [][\A sid \in Sessions :
        /\ (DeleteStep(sid) /\ SessionFound(conv_store, sid))
              => /\ ret'.out = "ok"
                 /\ ~SessionFound(conv_store', sid)
                 /\ get_session(conv_store', sid) = NoSession
                 /\ \A other \in Sessions \ {sid} : conv_store'[other] = conv_store[other]
        /\ (DeleteStep(sid) /\ ~SessionFound(conv_store, sid))
              => /\ ret'.out = "not_found"
                 /\ conv_store' = conv_store
        /\ DetailsStep(sid)
              => /\ conv_store' = conv_store
                 /\ IF SessionFound(conv_store, sid)
                    THEN /\ ret'.out = "ok"
                         /\ ret'.session.session_id = sid
                         /\ ret'.session.created_at = conv_store[sid].created_at
                         /\ ret'.session.message_history = conv_store[sid].message_history
                    ELSE ret'.out = "not_found"
        /\ \A t \in Requests :
              (ExecuteCalled(t, sid) /\ ~SessionFound(conv_store, sid))
                  => ret'.out = "not_found" /\ task'[t].pc = "idle"
        /\ (SessionFound(conv_store, sid) /\ ~DeleteStep(sid))
              => SessionFound(conv_store', sid)
        /\ (~SessionFound(conv_store, sid) /\ SessionFound(conv_store', sid))
              => ret'.op = "start" /\ ret'.sid = sid /\ ret'.out = "ok"
    ]_vars

\* s1, started at the beginning and executed once, has been deleted: its details
\* are not found
C33_Witness ==
    /\ ret.op = "details" /\ ret.out = "not_found" /\ ret.sid = "s1"
    /\ ~SessionFound(conv_store, "s1")
    /\ creations["c1"] = 1
    /\ \A t \in Tasks : task[t].pc = "idle"

\* C34 as stated: when a non-streaming execute returns, its response is the content
\* of the one assistant turn that the request appended after its human turn, the
\* returned message_count is the length of the session's message sequence with
\* that turn, and the first execute on a newly started conversation returns a
\* non-empty response and message_count 2.
C34_ResponseIsTheAppendedTurn ==
    (ExecEnded /\ ret.out = "ok")
    => /\ ret.session.messages = ret.loaded.messages \o
            <<[cls |-> "HumanMessage", content |-> ret.msg],
              [cls |-> "AIMessage", content |-> ret.response]>>
       /\ ret.message_count = Len(ret.session.messages)
       /\ ret.loaded.messages = <<>> =>
            /\ ret.response # <<>>
            /\ ret.message_count = 2

\* the step in which a get_or_create_agent call returns handle a
GocReturned(a) == ret'.op = "goc" /\ ret'.out = "ok" /\ ret'.agent = a

\* C35: the usage_count of a cache entry counts the get_or_create_agent calls that
\* have returned its handle: an entry enters the cache with usage_count 1, in the
\* step in which the creating call returns its handle; afterwards a step adds
\* exactly 1 to it when it is a get_or_create_agent returning that handle, and no
\* other step (evict_stale_agents, clear_cache, get_cache_stats, the use or
\* creation of other entries, the clock) changes it.
C35_UsageCountCountsReturns ==
    /\ [](\A i \in 1..Len(cache) : cache[i].usage_count >= 1)
    /\ [][\A i \in 1..Len(cache') :
            LET e == cache'[i]
                before == {j \in 1..Len(cache) : cache[j].agent = e.agent}
            IN IF before = {}
               THEN e.usage_count = 1 /\ GocReturned(e.agent)
               ELSE \A j \in before :
                       /\ e.config_id = cache[j].config_id
                       /\ e.usage_count = cache[j].usage_count
                            + (IF GocReturned(e.agent) THEN 1 ELSE 0)
       ]_vars

\* one entry, created by one call and returned once more, at a later time, by the
\* call that just ended
C35_Witness ==
    /\ Len(cache) = 1 /\ cache[1].usage_count = 2
    /\ ret.op = "goc" /\ ret.out = "ok" /\ ret.agent = cache[1].agent
    /\ SumOver(creations, Configs) = 1
    /\ SumOver(factory_calls, Configs) = 1
    /\ cache[1].last_used > cache[1].created_at

\* the step in which the factory call of task t's get_or_create_agent raises
RaiseStep(t) ==
    /\ task[t].pc = "factory" /\ task[t].op = "goc"
    /\ task'[t].pc # "factory"
    /\ ~(ret'.task = t /\ ret'.out = "ok")

\* C36: while a get_or_create_agent call awaits the factory it holds the lock and
\* the cache has no entry for its config_id (a stale one was removed before the
\* call); when the factory raises, the caller gets the exception and no handle,
\* the cache is exactly as it was, so still without an entry for that config_id and
\* with the entries of the other config_ids untouched, nothing counts as created,
\* and the lock is free; and a lookup that finds no entry for its config_id invokes
\* the factory, so a later call for the same config_id invokes it again.
C36_FactoryFailureLeavesNoEntry ==
    /\ [](\A t \in Requests :
            task[t].pc = "factory" => (lock = t /\ ~InCache(cache, task[t].cfg)))
    /\ [][\A t \in Requests :
            /\ RaiseStep(t)
                => /\ ret'.task = t /\ ret'.op = "goc" /\ ret'.out = "raised"
                   /\ ret'.cfg = task[t].cfg /\ ret'.agent = 0
                   /\ cache' = cache
                   /\ ~InCache(cache', task[t].cfg)
                   /\ creations' = creations /\ removals' = removals
                   /\ lock' = NoTask
                   /\ task'[t].pc \in {"idle", "done"}
            /\ \A id \in Configs :
                (LookupStep(t, id) /\ ~InCache(cache, id))
                    => /\ task'[t].pc = "factory"
                       /\ factory_calls'[id] = factory_calls[id] + 1
       ]_vars

\* c1 was created, went stale and was removed by a second call for it, whose
\* factory call has just raised: c1 is gone, the entry of c2 is there, the lock is
\* free
C36_Witness ==
    /\ ret.task = "t1" /\ ret.op = "goc" /\ ret.out = "raised" /\ ret.cfg = "c1"
    /\ factory_calls["c1"] = 2 /\ creations["c1"] = 1 /\ removals["c1"] = 1
    /\ max_size = 2
    /\ Len(cache) = 1 /\ cache[1].config_id = "c2" /\ cache[1].usage_count = 1
    /\ lock = NoTask

\* C37: when the factory raises inside the get_or_create_agent of a non-streaming
\* execute, the execute goes on as after an engine failure: it appends exactly one
\* assistant turn, the apology followed by the failure description, after the
\* human turn, and asks the store to persist it; the apology is the response; the
\* only exception that can leave execute is the one of that update_session; and
\* when execute returns, the session, if still stored, is persisted with exactly
\* these turns.
C37_FactoryFailureBecomesApology ==
    /\ [][\A t \in Requests :
            (task[t].pc = "factory" /\ task[t].op = "exec" /\ task'[t].pc # "factory"
                /\ task'[t].pc # "invoke")
            => /\ task'[t].pc = "persist_err"
               /\ task'[t].cause = "create"
               /\ task'[t].response = <<"I apologize, but I encountered an error: ", FactoryError>>
               /\ task'[t].session.messages = task[t].session.messages \o
                    <<[cls |-> "AIMessage", content |-> task'[t].response]>>
               /\ conv_store' = conv_store
       ]_vars
    /\ []((ExecEnded /\ ret.cause = "create")
          => /\ ret.session.messages = ret.loaded.messages \o
                  <<[cls |-> "HumanMessage", content |-> ret.msg],
                    [cls |-> "AIMessage",
                     content |-> <<"I apologize, but I encountered an error: ", FactoryError>>]>>
             /\ ret.out = "failed" => ret.error = StoreError
             /\ ret.out = "ok" =>
                  /\ ret.response = <<"I apologize, but I encountered an error: ", FactoryError>>
                  /\ ret.message_count = Len(ret.loaded.messages) + 2
                  /\ conv_store[ret.sid]._id = ret.sid =>
                      /\ Persisted(ret.sid) = StoredBefore(ret.session)
                      /\ conv_store[ret.sid].message_history = ret.session.message_history)

\* the factory raised in the first execute on s1, which returned the apology; the
\* human turn and the apology are persisted and nothing is cached
C37_Witness ==
    /\ ExecEnded /\ ret.out = "ok" /\ ret.cause = "create" /\ ret.sid = "s1"
    /\ ret.agent = 0
    /\ Persisted("s1") =
         <<[type |-> "HumanMessage", content |-> <<"hi">>],
           [type |-> "AIMessage",
            content |-> <<"I apologize, but I encountered an error: ", FactoryError>>]>>
    /\ cache = <<>> /\ factory_calls["c1"] = 1 /\ creations["c1"] = 0
    /\ lock = NoTask

\* the step in which the update_session awaited by task t's execute answers and
\* the execute returns
UpdateAnswered(t) ==
    /\ task[t].op = "exec" /\ task[t].pc \in {"persist", "persist_err"}
    /\ ret'.task = t /\ ret'.op = "exec" /\ ret'.out = "ok"

\* C38: when the session of an execute has been deleted after the execute loaded
\* it, the execute's update_session writes nothing: the session stays absent from
\* the store, no other session changes, and the execute returns its response and
\* message_count as if the update had taken effect.
C38_DeletedSessionNotRecreated ==
    [][\A t \in Requests :
        (UpdateAnswered(t) /\ ~SessionFound(conv_store, task[t].sid))
        => /\ conv_store' = conv_store
           /\ ~SessionFound(conv_store', task[t].sid)
           /\ get_session(conv_store', task[t].sid) = NoSession
           /\ ret'.sid = task[t].sid
           /\ ret'.response = task[t].response
           /\ ret'.message_count = Len(task[t].session.messages)
           /\ task'[t].pc = "idle"
    ]_vars

\* s1 was deleted during its first execute, which returned the engine's answer:
\* s1 is not in the store
C38_Witness ==
    /\ ExecEnded /\ ret.out = "ok" /\ ret.cause = "none" /\ ret.sid = "s1"
    /\ ret.response = AnswerText /\ ret.message_count = 2
    /\ ret.loaded.messages = <<>>
    /\ ~SessionFound(conv_store, "s1")

\* the step in which the configuration store updates or deletes configuration id
ConfigChanged(id) ==
    ret'.op \in {"update_config", "delete_config"} /\ ret'.cfg = id /\ ret'.out = "ok"

\* C39: updating or deleting a configuration in the configuration store changes
\* nothing in the cache and invokes no factory; and a get_or_create_agent lookup
\* that finds an entry for its config_id idle for max_idle_minutes or less returns
\* that entry's handle and invokes no factory, whether or not the configuration is
\* still stored and whenever it was last updated; only when the entry is gone
\* (evicted, removed as stale, cleared) does a lookup invoke the factory.
C39_CacheIgnoresConfigChanges ==
    [][/\ \A id \in Configs :
            ConfigChanged(id)
            => /\ cache' = cache
               /\ factory_calls' = factory_calls
               /\ creations' = creations /\ removals' = removals
               /\ lock' = lock /\ waiters' = waiters
       /\ \A t \in Requests, id \in Configs :
            LookupStep(t, id) =>
                IF InCache(cache, id)
                     /\ now - GetItem(cache, id).last_used <= max_idle_minutes
                THEN /\ ret'.out = "ok"
                     /\ ret'.agent = GetItem(cache, id).agent
                     /\ factory_calls' = factory_calls
                     /\ GetItem(cache', id).created_at = GetItem(cache, id).created_at
                ELSE /\ task'[t].pc = "factory"
                     /\ factory_calls'[id] = factory_calls[id] + 1
    ]_vars

\* c1 was updated after its entry was created and then deleted: the call that
\* just ended returned the handle of that entry, made by the only factory call
C39_Witness ==
    /\ ret.op = "goc" /\ ret.out = "ok" /\ ret.cfg = "c1"
    /\ "c1" \notin config_store
    /\ Len(cache) = 1 /\ cache[1].config_id = "c1"
    /\ ret.agent = cache[1].agent
    /\ config_updated_at["c1"] > cache[1].created_at
    /\ cache[1].usage_count = 2
    /\ SumOver(factory_calls, Configs) = 1

\* C40: in every state the entries of the cache are in the order of their
\* last_used, oldest at the front, so the entry popitem(last=False) removes has
\* the minimal last_used.
C40_OrderFollowsRecency ==
    /\ \A i \in 1..Len(cache), j \in 1..Len(cache) :
          i < j => cache[i].last_used <= cache[j].last_used
    /\ \A i \in 1..Len(cache) : cache[1].last_used <= cache[i].last_used

\* the entry created first was reused later and is behind the entry created second
C40_Witness ==
    /\ Len(cache) = 2
    /\ cache[1].agent > cache[2].agent
    /\ cache[1].last_used < cache[2].last_used
    /\ cache[2].usage_count = 2

====
